---- MODULE Spec2Model ----
(***************************************************************************)
(* A state-machine model of the gardening grid simulation: the grid of     *)
(* squares (soil, plant, structure, weeds, pests), the weather and clock   *)
(* of main.js, the player commands of handleSquareClick and the simulation *)
(* tick of updateAllSquares.                                               *)
(*                                                                         *)
(* Numbers.  The program computes with IEEE doubles.  The model computes   *)
(* with integers in fixed point: soil, weather, structure and money        *)
(* quantities are counted in 1/Scale (0.001), the plant's fractions and    *)
(* energy reserves in 1/Micro (0.000001).  Products are divided in the     *)
(* order that keeps every intermediate value below 2^31.                   *)
(***************************************************************************)
EXTENDS Integers, Sequences, FiniteSets, TLC

Scale == 10 ^ 3
Micro == 10 ^ 6

\* The grid is GRID_ROWS x GRID_COLS squares (15 x 15 in config.js).
GRID_ROWS == 3
GRID_COLS == 3

Min(a, b) == IF a <= b THEN a ELSE b
Max(a, b) == IF a >= b THEN a ELSE b
Abs(a) == IF a < 0 THEN -a ELSE a

\* a * (n / d) for a rate n/d of the configuration
Frac(a, n, d) == (a * n) \div d

\* JavaScript's  v || d  on a number: 0 is falsy and is replaced by d
OrDefault(v, d) == IF v = 0 THEN d ELSE v

clamp(value, min, max) == Max(min, Min(max, value))

Cells == (0 .. GRID_COLS - 1) \X (0 .. GRID_ROWS - 1)

\* squares are created, and visited by forEach, row by row
CellIndex(c) == c[2] * GRID_COLS + c[1] + 1
\* (variant: the squares are visited column by column)
CellAtColumnMajor(i) == << (i - 1) \div GRID_ROWS, (i - 1) % GRID_ROWS >>

CellAt(i) == << (i - 1) % GRID_COLS, (i - 1) \div GRID_COLS >>
NumCells == GRID_ROWS * GRID_COLS

getNeighbors(x, y, includeDiagonals, radius) ==
    { n \in Cells :
        LET dx == n[1] - x
            dy == n[2] - y
        IN  /\ dx \in (-radius) .. radius
            /\ dy \in (-radius) .. radius
            /\ ~(dx = 0 /\ dy = 0)
            /\ ~(~includeDiagonals /\ dx # 0 /\ dy # 0 /\ radius = 1)
            /\ dx * dx + dy * dy <= radius * radius }

----------------------------------------------------------------------------
(* config.js *)

RATES ==
    [ soilDegradeMoist        |-> Scale \div 100,
      soilDegradeWet          |-> (2 * Scale) \div 100,
      evaporationCoolingFactor|-> << 15, 100 >>,
      moistSoilCoolingFactor  |-> (5 * Scale) \div 100,
      acidifyRateHighOM       |-> (2 * Scale) \div 100,
      tempEffectOnEvap        |-> << 7, 1000 >>,
      humidityEffectOnEvap    |-> << 9, 10 >>,
      evaporationHumidityGain |-> << 5, 100 >>,
      windHumidityLoss        |-> << 1, 10 >>,
      microbeGrowthOxygen     |-> Scale \div 10,
      microbeConversionBase   |-> Scale,
      microbeDeathLowOM       |-> (2 * Scale) \div 10,
      tempEffectOnMicrobes    |-> << 5, 100 >>,
      beansMICRate            |-> (2 * Scale) \div 10,
      beansOMRate             |-> Scale \div 10,
      senescenceShrinkRate    |-> Micro \div 1000,
      weedNutrientSapRate     |-> (8 * Scale) \div 100,
      compostOM               |-> 12 * Scale,
      compostMicrobeAdd       |-> 5 * Scale,
      compostMoistureAdd      |-> 3 * Scale,
      crhMoistureReduce       |-> 5 * Scale,
      crhCompactionReduce     |-> 8 * Scale,
      crhOmAdd                |-> 2 * Scale,
      crhPhIncrease           |-> Scale \div 10,
      sandMoistureReduce      |-> 8 * Scale,
      waterMoistureAdd        |-> 7 * Scale,
      waterCompactionAdd      |-> Scale \div 2,
      wateringCooling         |-> Scale \div 2,
      tillCompactionReduce    |-> 20 * Scale,
      tillMicrobesReduce      |-> 5 * Scale,
      beneficialAttractionGain|-> Scale \div 2,
      beneficialDecay         |-> << 98, 100 >>,
      beePollinationWindReduction |-> 3 * Scale,
      ollaWaterRelease        |-> (35 * Scale) \div 10,
      ollaDistributionRadius1Ratio |-> << 7, 10 >>,
      ollaDistributionRadius2Ratio |-> << 3, 10 >>,
      plantConsumption        |-> << 5, 10 >>,
      plantShrink             |-> (2 * Micro) \div 1000,
      tempEffectOnGrowth      |-> << 4, 100 >>,
      rootDensityGrowthBase   |-> << 2, 100 >>,
      rootRecoveryRate        |-> (8 * Scale) \div 10,
      basePhotosynthesisRate  |-> << 18, 100 >>,
      baseRespirationRate     |-> << 1, 1000 >>,
      respirationCHOToATPConversion |-> 30,
      rootRecoveryATPCost     |-> Micro \div 10,
      growthATPCost           |-> << 5, 100 >>,
      stemDevRate             |-> << 1, 100 >>,
      leafDevRate             |-> << 1, 100 >>,
      pestNematodeShrinkAdd   |-> Micro \div 1000,
      rootDamageNematodeFactor|-> (3 * Scale) \div 10,
      rootDamageLowOxygen     |-> (4 * Scale) \div 10,
      rootDamageWetness       |-> (2 * Scale) \div 10,
      rootDamageHighTempFactor|-> << 15, 100 >> ]

THRESHOLDS ==
    [ wet                     |-> 80 * Scale,
      moist                   |-> 30 * Scale,
      compactionMax           |-> 100 * Scale,
      oxygenHigh              |-> 80 * Scale,
      lowOxygenForRoots       |-> 30 * Scale,
      microbeHigh             |-> 100 * Scale,
      microbeActive           |-> 50 * Scale,
      omLowForMicrobes        |-> 5 * Scale,
      highOMAcidify           |-> 70 * Scale,
      phMax                   |-> 9 * Scale,
      phMin                   |-> 4 * Scale,
      phOptimalLow            |-> (55 * Scale) \div 10,
      phOptimalHigh           |-> 6 * Scale,
      microbeOptimalPhLow     |-> 6 * Scale,
      microbeOptimalPhHigh    |-> (75 * Scale) \div 10,
      microbeMinMoisture      |-> 15 * Scale,
      microbeMinBN            |-> 5 * Scale,
      soilConditionGrow       |-> 65 * Scale,
      plantTier1Maturity      |-> (15 * Micro) \div 100,
      plantTier2Maturity      |-> (50 * Micro) \div 100,
      plantTier3Maturity      |-> (85 * Micro) \div 100,
      minNutrientsForFlowering|-> 10 * Scale,
      maxTempMicrobeDeath     |-> 40 * Scale,
      minTempMicrobeSlowdown  |-> 10 * Scale,
      optimalTempMicrobeLow   |-> 15 * Scale,
      optimalTempMicrobeHigh  |-> 35 * Scale,
      pollinationWindThreshold|-> 5 * Scale,
      pestSpawnMoisture       |-> 70 * Scale,
      pestSpawnHumidity       |-> 75 * Scale,
      nematodeWetDuration     |-> 8,
      highMicrobesForNematodeDefense |-> 70 * Scale,
      beneficialAttractionThreshold  |-> 5 * Scale,
      plantMaturityForBeneficials    |-> (85 * Micro) \div 100,
      squashEffectSize        |-> Micro \div 2,
      ollaMaxWater            |-> 200 * Scale,
      moistureShrink          |-> 20 * Scale,
      goodRootDensity         |-> Scale,
      goodRootHealth          |-> 80 * Scale,
      moistureStressPhotosynthesis |-> 30 * Scale,
      lowCHOThreshold         |-> Micro,
      lowNutrientThreshold    |-> 5 * Scale,
      maxTempRootDamage       |-> 38 * Scale,
      minTempPlantSlowdown    |-> 5 * Scale,
      optimalTempPlantLow     |-> 15 * Scale,
      optimalTempPlantHigh    |-> 30 * Scale,
      maxTempPlantSlowdown    |-> 35 * Scale,
      windStressThreshold     |-> 8 * Scale,
      minRootDensity          |-> Scale \div 10,
      maxRootDensity          |-> (25 * Scale) \div 10,
      plantMaxSize            |-> Micro ]

SHOP_COSTS == [ massNeem |-> 2000, massWeed |-> 5000, soilConditioner |-> 10000 ]

CLIMATE_PROPERTIES ==
    [ Temperate |-> [ tempRange |-> << 5 * Scale, 28 * Scale >>, humidityAvg |-> 60 * Scale,
                      windSpeedRange |-> << 2 * Scale, 15 * Scale >> ],
      Tropical  |-> [ tempRange |-> << 22 * Scale, 33 * Scale >>, humidityAvg |-> 80 * Scale,
                      windSpeedRange |-> << 5 * Scale, 25 * Scale >> ],
      Arid      |-> [ tempRange |-> << 15 * Scale, 42 * Scale >>, humidityAvg |-> 30 * Scale,
                      windSpeedRange |-> << 10 * Scale, 35 * Scale >> ] ]

PlantProps(maxYield, price, attracts, suppresses, days, perennial, adds) ==
    [ maxYield |-> maxYield, price |-> price, attractsBeneficials |-> attracts,
      suppressesNematodes |-> suppresses, daysToHarvestableStage |-> days,
      isPerennial |-> perennial, addsOM |-> adds, addsMIC |-> adds ]

PLANT_PROPERTIES ==
    [ Test     |-> PlantProps(0,  0, FALSE, FALSE, 10, TRUE,  FALSE),
      Corn     |-> PlantProps(2, 60, FALSE, FALSE, 60, FALSE, FALSE),
      Beans    |-> PlantProps(3, 40, FALSE, FALSE, 50, FALSE, TRUE),
      Squash   |-> PlantProps(1, 70, FALSE, FALSE, 55, FALSE, FALSE),
      Tomato   |-> PlantProps(4, 30, FALSE, FALSE, 70, FALSE, FALSE),
      Basil    |-> PlantProps(1, 20, TRUE,  FALSE, 40, FALSE, FALSE),
      Flower   |-> PlantProps(0, 50, TRUE,  FALSE, 45, FALSE, FALSE),
      Marigold |-> PlantProps(0, 25, TRUE,  TRUE,  50, FALSE, FALSE) ]

PlantTypes == DOMAIN PLANT_PROPERTIES

STRUCTURE_INFO == { "Olla", "Trellis", "Net" }

----------------------------------------------------------------------------
(* soil.js: class Soil.  A soil is a record; each method is an operator   *)
(* from the soil before the call to the soil after it.                     *)

updateDerivedVariables(s) ==
    LET diff == IF s.pH < THRESHOLDS.phOptimalLow
                THEN THRESHOLDS.phOptimalLow - s.pH
                ELSE s.pH - THRESHOLDS.phOptimalHigh
        \* Math.round(diff * 10) * 10
        phFactor == IF s.pH >= THRESHOLDS.phOptimalLow /\ s.pH <= THRESHOLDS.phOptimalHigh
                    THEN 100 * Scale
                    ELSE Max(0, 100 * Scale
                                - ((diff * 10 + Scale \div 2) \div Scale) * 10 * Scale)
        microbeNutrientFactor == clamp(s.microbes, 0, 100 * Scale)
        omFactor == clamp(s.organicMatter * 2, 0, 100 * Scale)
        bnFactor == clamp(s.bioavailableNutrition * 3, 0, 100 * Scale)
        moistureFactor == clamp(s.moisture, 0, 100 * Scale)
        aerationFactor == clamp(100 * Scale - OrDefault(s.compaction, 50 * Scale),
                                0, 100 * Scale)
        nutrition == clamp((bnFactor + omFactor + phFactor + microbeNutrientFactor) \div 4,
                           0, 100 * Scale)
        soilCondition == clamp((moistureFactor + nutrition + aerationFactor
                                + microbeNutrientFactor) \div 4, 0, 100 * Scale)
        o2Reduction == IF s.moisture >= THRESHOLDS.wet
                          \/ s.compaction >= THRESHOLDS.compactionMax
                       THEN 9 ELSE 0
    IN  [ s EXCEPT !.nutrition = nutrition,
                   !.soilCondition = soilCondition,
                   !.oxygenBasePotential = (100 * Scale * (10 - o2Reduction)) \div 10 ]

addMoisture(s, amount) ==
    updateDerivedVariables([ s EXCEPT !.moisture = clamp(s.moisture + amount, 0, 100 * Scale) ])

updateOxygen(s, plantOxygenConsumption) ==
    LET d == updateDerivedVariables(s)
    IN  [ d EXCEPT !.oxygen = clamp(d.oxygenBasePotential - plantOxygenConsumption,
                                    0, 100 * Scale) ]

\* new Soil(initialConditions): the given fields over Soil.DEFAULTS, then
\* updateDerivedVariables() and updateOxygen()
NewSoil(moisture, compaction, microbes, organicMatter, bioavailableNutrition, pH) ==
    updateOxygen(
        [ moisture |-> moisture, nutrition |-> 50 * Scale, compaction |-> compaction,
          microbes |-> microbes, oxygen |-> 100 * Scale, organicMatter |-> organicMatter,
          bioavailableNutrition |-> bioavailableNutrition, pH |-> pH,
          soilCondition |-> 50 * Scale, evaporationRate |-> Scale \div 10,
          wetDuration |-> 0, oxygenBasePotential |-> 100 * Scale ], 0)

SoilDEFAULTS == NewSoil(50 * Scale, 50 * Scale, 50 * Scale, 10 * Scale, 10 * Scale, 7 * Scale)

\* the temperature factor of microbe activity, in 1/Scale
microbeActivityFactor(temperature) ==
    IF temperature < THRESHOLDS.minTempMicrobeSlowdown THEN Scale \div 10
    ELSE IF temperature > THRESHOLDS.maxTempMicrobeDeath THEN 0
    ELSE IF temperature < THRESHOLDS.optimalTempMicrobeLow
         THEN clamp(Scale - Frac(THRESHOLDS.optimalTempMicrobeLow - temperature,
                                 RATES.tempEffectOnMicrobes[1], RATES.tempEffectOnMicrobes[2]),
                    Scale \div 10, Scale)
    ELSE IF temperature > THRESHOLDS.optimalTempMicrobeHigh
         THEN clamp(Scale - Frac(temperature - THRESHOLDS.optimalTempMicrobeHigh,
                                 RATES.tempEffectOnMicrobes[1], RATES.tempEffectOnMicrobes[2]),
                    Scale \div 10, Scale)
    ELSE Scale

\* (variant: the nutrition gains the whole conversion rate, whatever organic
\* matter there was to convert)
updateMicrobesUnlimited(s, temperature) ==
    LET activity == microbeActivityFactor(temperature)
        heatDeath == IF temperature >= THRESHOLDS.minTempMicrobeSlowdown
                        /\ temperature > THRESHOLDS.maxTempMicrobeDeath
                     THEN s.microbes \div 2 ELSE 0
        microbeGrowthConditionsMet ==
            /\ s.oxygen > THRESHOLDS.lowOxygenForRoots
            /\ s.moisture > THRESHOLDS.microbeMinMoisture
            /\ s.bioavailableNutrition > THRESHOLDS.microbeMinBN
        growthDelta ==
            IF microbeGrowthConditionsMet /\ activity > Scale \div 10
            THEN IF s.oxygen > THRESHOLDS.oxygenHigh
                 THEN (RATES.microbeGrowthOxygen * activity) \div Scale
                 ELSE 0
            ELSE 0
        deathDelta ==
            heatDeath + (IF s.organicMatter < THRESHOLDS.omLowForMicrobes /\ s.microbes > 0
                         THEN RATES.microbeDeathLowOM ELSE 0)
        diff == IF s.pH < THRESHOLDS.microbeOptimalPhLow
                THEN THRESHOLDS.microbeOptimalPhLow - s.pH
                ELSE s.pH - THRESHOLDS.microbeOptimalPhHigh
        \* 1.0 - (diff / 0.5) * 0.25
        microbePhFactor ==
            IF s.pH >= THRESHOLDS.microbeOptimalPhLow /\ s.pH <= THRESHOLDS.microbeOptimalPhHigh
            THEN Scale
            ELSE Max(0, Scale - diff \div 2)
        conversionRate ==
            (((RATES.microbeConversionBase
               * (IF s.microbes >= THRESHOLDS.microbeHigh THEN 2 ELSE 1)
               * microbePhFactor) \div Scale) * activity) \div Scale
        conversionDelta ==
            IF s.microbes >= THRESHOLDS.microbeActive /\ s.organicMatter > 0 /\ activity > 0
            THEN Min(s.organicMatter, conversionRate)
            ELSE 0
    IN  [ s EXCEPT !.microbes = clamp(s.microbes + growthDelta - deathDelta, 0, 1000 * Scale),
                   !.organicMatter = Max(0, s.organicMatter - conversionDelta),
                   !.bioavailableNutrition =
                       Max(0, s.bioavailableNutrition
                              + (IF conversionDelta > 0 THEN conversionRate ELSE 0)) ]

updateMicrobes(s, temperature) ==
    LET activity == microbeActivityFactor(temperature)
        heatDeath == IF temperature >= THRESHOLDS.minTempMicrobeSlowdown
                        /\ temperature > THRESHOLDS.maxTempMicrobeDeath
                     THEN s.microbes \div 2 ELSE 0
        microbeGrowthConditionsMet ==
            /\ s.oxygen > THRESHOLDS.lowOxygenForRoots
            /\ s.moisture > THRESHOLDS.microbeMinMoisture
            /\ s.bioavailableNutrition > THRESHOLDS.microbeMinBN
        growthDelta ==
            IF microbeGrowthConditionsMet /\ activity > Scale \div 10
            THEN IF s.oxygen > THRESHOLDS.oxygenHigh
                 THEN (RATES.microbeGrowthOxygen * activity) \div Scale
                 ELSE 0
            ELSE 0
        deathDelta ==
            heatDeath + (IF s.organicMatter < THRESHOLDS.omLowForMicrobes /\ s.microbes > 0
                         THEN RATES.microbeDeathLowOM ELSE 0)
        diff == IF s.pH < THRESHOLDS.microbeOptimalPhLow
                THEN THRESHOLDS.microbeOptimalPhLow - s.pH
                ELSE s.pH - THRESHOLDS.microbeOptimalPhHigh
        \* 1.0 - (diff / 0.5) * 0.25
        microbePhFactor ==
            IF s.pH >= THRESHOLDS.microbeOptimalPhLow /\ s.pH <= THRESHOLDS.microbeOptimalPhHigh
            THEN Scale
            ELSE Max(0, Scale - diff \div 2)
        conversionRate ==
            (((RATES.microbeConversionBase
               * (IF s.microbes >= THRESHOLDS.microbeHigh THEN 2 ELSE 1)
               * microbePhFactor) \div Scale) * activity) \div Scale
        conversionDelta ==
            IF s.microbes >= THRESHOLDS.microbeActive /\ s.organicMatter > 0 /\ activity > 0
            THEN Min(s.organicMatter, conversionRate)
            ELSE 0
    IN  [ s EXCEPT !.microbes = clamp(s.microbes + growthDelta - deathDelta, 0, 1000 * Scale),
                   !.organicMatter = Max(0, s.organicMatter - conversionDelta),
                   !.bioavailableNutrition = Max(0, s.bioavailableNutrition + conversionDelta) ]

\* the evaporation rate of one tick, in 1/Scale; squashModifier is in 1/Scale
evaporationRate(temperature, humidity, squashModifier) ==
    LET baseEvap == Frac(temperature, RATES.tempEffectOnEvap[1], RATES.tempEffectOnEvap[2])
        humidityFactor == Scale - Frac(OrDefault(humidity, 60 * Scale) \div 100,
                                       RATES.humidityEffectOnEvap[1],
                                       RATES.humidityEffectOnEvap[2])
    IN  Max(0, (((baseEvap * humidityFactor) \div Scale) * squashModifier) \div Scale)

evaporationAmount(s, rate) == (rate * s.moisture) \div (100 * Scale)

applyEvaporation(s, temperature, humidity, wind, squashModifier) ==
    LET rate == evaporationRate(temperature, humidity, squashModifier)
    IN  addMoisture([ s EXCEPT !.evaporationRate = rate ], - evaporationAmount(s, rate))

updateDegradation(s) ==
    LET degradeRate == IF s.moisture >= THRESHOLDS.wet THEN RATES.soilDegradeWet
                       ELSE IF s.moisture >= THRESHOLDS.moist THEN RATES.soilDegradeMoist
                       ELSE 0
    IN  IF degradeRate > 0
        THEN [ addMoisture(s, - degradeRate) EXCEPT
                 !.microbes = clamp(s.microbes - degradeRate, 0, 1000 * Scale) ]
        ELSE s

updatePH(s) ==
    IF s.organicMatter > THRESHOLDS.highOMAcidify
    THEN [ s EXCEPT !.pH = clamp(s.pH - RATES.acidifyRateHighOM,
                                 THRESHOLDS.phMin, THRESHOLDS.phMax) ]
    ELSE s

updateWetDuration(s) ==
    [ s EXCEPT !.wetDuration = IF s.moisture >= THRESHOLDS.wet THEN s.wetDuration + 1 ELSE 0 ]

----------------------------------------------------------------------------
(* structure.js: class Structure *)

NoConnections == [ top |-> FALSE, right |-> FALSE, bottom |-> FALSE, left |-> FALSE ]

\* square.structure = null
NoStructure == [ type |-> "null" ]

\* (variant: a new structure starts with its right flag set)
NewStructureFlagged(type) ==
    [ type |-> type, connections |-> [ NoConnections EXCEPT !.right = TRUE ] ]

\* new Structure(type): only an Olla has a waterLevel, and it starts full
NewStructure(type) ==
    IF type = "Olla"
    THEN [ type |-> type, connections |-> NoConnections,
           waterLevel |-> THRESHOLDS.ollaMaxWater ]
    ELSE [ type |-> type, connections |-> NoConnections ]

\* Structure.update: the water an Olla releases in one tick
releaseAmount(st) ==
    IF st.type = "Olla" /\ st.waterLevel > 0
    THEN Min(st.waterLevel, RATES.ollaWaterRelease)
    ELSE 0

StructureUpdate(st) ==
    IF st.type = "Olla" /\ st.waterLevel > 0
    THEN [ st EXCEPT !.waterLevel = st.waterLevel - releaseAmount(st) ]
    ELSE st

----------------------------------------------------------------------------
(* plant.js: class Plant *)

\* square.plant = undefined
NoPlant == [ type |-> "undefined" ]

\* new Plant(type): an unknown type falls back to the Test plant
NewPlant(type) ==
    [ type |-> IF type \in PlantTypes THEN type ELSE "Test",
      size |-> (5 * Micro) \div 100,
      rootHealth |-> 100 * Scale,
      rootDensity |-> Scale,
      CHO |-> 5 * Micro,
      ATP |-> Micro,
      stemHealth |-> 100 * Scale,
      leafDensity |-> (2 * Micro) \div 10,
      stemDevelopment |-> Micro \div 10,
      wasPollinated |-> FALSE,
      ageTicks |-> 0,
      ageDays |-> 0,
      maturityProgress |-> 0,
      growthStage |-> 0 ]

\* ageDays is kept in simulated minutes
updateAge(p, elapsedSimMinutes) ==
    [ p EXCEPT !.ageTicks = p.ageTicks + 1, !.ageDays = p.ageDays + elapsedSimMinutes ]

\* (variant: perennials enter senescence as well)
isSenescentAnyPlant(p) ==
    \/ p.growthStage = 4
    \/ /\ p.maturityProgress >= Micro
       /\ p.growthStage = 3

\* does _handleSenescence find the plant senescent (already, or entering now)
isSenescent(p) ==
    \/ p.growthStage = 4
    \/ /\ ~PLANT_PROPERTIES[p.type].isPerennial
       /\ p.maturityProgress >= Micro
       /\ p.growthStage = 3

\* the plant after _handleSenescence
handleSenescence(p) ==
    IF isSenescent(p)
    THEN LET size == Max(0, p.size - RATES.senescenceShrinkRate)
         IN  [ p EXCEPT !.growthStage = 4,
                        !.rootHealth = Max(0, p.rootHealth - Scale \div 2),
                        !.size = size,
                        !.CHO = Max(0, p.CHO - size \div 10000),
                        !.ATP = Max(0, p.ATP - size \div 20000) ]
    ELSE p

\* the value _handleSenescence returns: the rest of Plant.update is skipped
senescentOrDead(p) ==
    LET q == handleSenescence(p)
    IN  q.size <= 0 \/ q.rootHealth <= 0 \/ isSenescent(p)

\* (variant: without the nutrients the plant falls back to a seedling)
stageForReset(maturityProgress, bioavailableNutrition, growthStage) ==
    IF bioavailableNutrition < THRESHOLDS.minNutrientsForFlowering
    THEN IF maturityProgress >= THRESHOLDS.plantTier2Maturity THEN 0
         ELSE IF maturityProgress >= THRESHOLDS.plantTier1Maturity THEN 1 ELSE 0
    ELSE IF maturityProgress >= THRESHOLDS.plantTier3Maturity THEN 3
    ELSE IF maturityProgress >= THRESHOLDS.plantTier2Maturity THEN 2
    ELSE IF maturityProgress >= THRESHOLDS.plantTier1Maturity THEN 1
    ELSE 0

\* the growth stage _updateMaturityAndStage derives from the progress, the
\* nutrients of the soil and the stage so far
stageFor(maturityProgress, bioavailableNutrition, growthStage) ==
    IF maturityProgress >= THRESHOLDS.plantTier3Maturity
    THEN IF bioavailableNutrition >= THRESHOLDS.minNutrientsForFlowering
         THEN 3 ELSE Min(growthStage, 2)
    ELSE IF maturityProgress >= THRESHOLDS.plantTier2Maturity
    THEN IF bioavailableNutrition >= THRESHOLDS.minNutrientsForFlowering
         THEN 2 ELSE Min(growthStage, 1)
    ELSE IF maturityProgress >= THRESHOLDS.plantTier1Maturity THEN 1
    ELSE 0

\* progress gained in one tick, in 1/Micro: the daily rate scaled by the
\* soil condition, the health and the elapsed days
progressThisTick(p, elapsedSimMinutes, s) ==
    LET overallHealthFactor ==
            clamp((OrDefault(p.stemHealth, 100 * Scale) + p.rootHealth
                   + p.leafDensity \div 10) \div 300, Scale \div 10, Scale)
        daysToHarvestable == OrDefault(PLANT_PROPERTIES[p.type].daysToHarvestableStage, 60)
        dailyProgressRate == THRESHOLDS.plantTier3Maturity \div daysToHarvestable
        conditionFactor ==
            clamp((s.soilCondition * Scale) \div THRESHOLDS.soilConditionGrow,
                  Scale \div 10, (12 * Scale) \div 10)
        rate == (((dailyProgressRate * conditionFactor) \div Scale)
                 * overallHealthFactor) \div Scale
    IN  rate * (elapsedSimMinutes \div 1440) + (rate * (elapsedSimMinutes % 1440)) \div 1440

\* (variant: the progress is not clamped)
updateMaturityAndStageUnclamped(p, elapsedSimMinutes, s) ==
    LET progress == p.maturityProgress + progressThisTick(p, elapsedSimMinutes, s)
    IN  [ p EXCEPT !.maturityProgress = progress,
                   !.growthStage = IF p.growthStage < 4
                                   THEN stageFor(progress, s.bioavailableNutrition,
                                                 p.growthStage)
                                   ELSE p.growthStage ]

updateMaturityAndStage(p, elapsedSimMinutes, s) ==
    LET progress == clamp(p.maturityProgress + progressThisTick(p, elapsedSimMinutes, s),
                          0, Micro)
    IN  [ p EXCEPT !.maturityProgress = progress,
                   !.growthStage = IF p.growthStage < 4
                                   THEN stageFor(progress, s.bioavailableNutrition,
                                                 p.growthStage)
                                   ELSE p.growthStage ]

\* _calculateLightFactor reads simulatedTimeOfDay, which is a variable local
\* to the start-up callback of main.js and not in scope in plant.js: the
\* read throws a ReferenceError
calculateLightFactorThrows == TRUE

----------------------------------------------------------------------------
(* The state: squareState of main.js, one Square per cell, split by field;  *)
(* the weather and game variables of main.js; the position of a running    *)
(* updateAllSquares call; the result of the last click.                    *)

VARIABLES
    soil,          \* [Cells -> Soil]                     square.soil
    variables,     \* [Cells -> temperature, weeds, pests] square.variables
    plant,         \* [Cells -> Plant or NoPlant]         square.plant
    structure,     \* [Cells -> Structure or NoStructure] square.structure
    weather,       \* the weather / time variables of main.js
    game,          \* the game variables of main.js
    tick,          \* the updateAllSquares call in progress, and how the last one ended
    actionResult,  \* what the last click handler computed
    clicks         \* number of clicks handled so far

vars == << soil, variables, plant, structure, weather, game, tick, actionResult, clicks >>

\* bounds on the length of a run of the whole program
MaxClicks == 2
MaxTicks == 2

NoPests == [ type |-> "null", level |-> 0 ]

Directions == { "top", "right", "bottom", "left" }

Opposite(dir) ==
    CASE dir = "top" -> "bottom"
      [] dir = "bottom" -> "top"
      [] dir = "left" -> "right"
      [] dir = "right" -> "left"

\* the cell one step from c in direction dir (possibly off the grid)
Toward(c, dir) ==
    CASE dir = "top" -> << c[1], c[2] - 1 >>
      [] dir = "bottom" -> << c[1], c[2] + 1 >>
      [] dir = "left" -> << c[1] - 1, c[2] >>
      [] dir = "right" -> << c[1] + 1, c[2] >>

HasPlant(c) == plant[c].type # "undefined"
HasStructure(c) == structure[c].type # "null"

----------------------------------------------------------------------------
(* main.js: updateWeather *)

\* Math.sin((t / 1440 - 0.25) * 2 * PI), in 1/Scale, tabulated by the hour
CosQuarter == << 1000, 966, 866, 707, 500, 259, 0 >>

CosHour(h) ==
    IF h <= 6 THEN CosQuarter[h + 1]
    ELSE IF h <= 12 THEN - CosQuarter[12 - h + 1]
    ELSE IF h <= 18 THEN - CosQuarter[h - 12 + 1]
    ELSE CosQuarter[24 - h + 1]

SinDay(simulatedTimeOfDay) == - CosHour((simulatedTimeOfDay \div 60) % 24)

\* the random draws of one updateWeather call
WeatherDraws(climate) ==
    [ direction : { "N", "E", "S", "W", "None" },
      fluctuation : { - (15 * Scale) \div 10, 0, (15 * Scale) \div 10 },
      windSpeed : { 0, CLIMATE_PROPERTIES[climate].windSpeedRange[1],
                       CLIMATE_PROPERTIES[climate].windSpeedRange[2] } ]

CalmDraw == [ direction |-> "None", fluctuation |-> 0, windSpeed |-> 0 ]

\* (variant: the direction is drawn again on every new day)
updateWeatherEveryDay(w, g, totalEvaporation, elapsedSimMinutes, draw) ==
    LET climateProps == CLIMATE_PROPERTIES[w.currentClimate]
        timeOfDay == (w.simulatedTimeOfDay + elapsedSimMinutes) % 1440
        currentSimDay == w.simulatedDaysElapsed \div 1440
        reroll == currentSimDay > w.lastWindChangeDay
        tempAmplitude == (climateProps.tempRange[2] - climateProps.tempRange[1]) \div 2
        tempAverage == (climateProps.tempRange[2] + climateProps.tempRange[1]) \div 2
        baseTemperature == tempAverage + (tempAmplitude * SinDay(timeOfDay)) \div Scale
        windSpeed == IF g.tickCounter % 5 = 0 THEN draw.windSpeed ELSE w.currentWindSpeed
        humidityChange ==
            Frac(totalEvaporation, RATES.evaporationHumidityGain[1],
                 RATES.evaporationHumidityGain[2])
            - Frac(windSpeed, RATES.windHumidityLoss[1], RATES.windHumidityLoss[2])
            + Frac(OrDefault(climateProps.humidityAvg, 60 * Scale) - w.currentHumidity, 5, 100)
        beeLevelFactor == clamp(g.beneficialAttractionLevel \div 10, 0, Scale)
        beeWindReduction == (beeLevelFactor * RATES.beePollinationWindReduction) \div Scale
    IN  [ w EXCEPT
            !.simulatedTimeOfDay = timeOfDay,
            !.currentWindDirection = IF reroll THEN draw.direction ELSE @,
            !.lastWindChangeDay = IF reroll THEN currentSimDay ELSE @,
            !.ambientTemperature = baseTemperature + draw.fluctuation,
            !.currentWindSpeed = windSpeed,
            !.currentHumidity = clamp(w.currentHumidity + humidityChange, 0, 100 * Scale),
            !.isPollinated = windSpeed >= THRESHOLDS.pollinationWindThreshold - beeWindReduction ]

updateWeather(w, g, totalEvaporation, elapsedSimMinutes, draw) ==
    LET climateProps == CLIMATE_PROPERTIES[w.currentClimate]
        timeOfDay == (w.simulatedTimeOfDay + elapsedSimMinutes) % 1440
        currentSimDay == w.simulatedDaysElapsed \div 1440
        reroll == currentSimDay > w.lastWindChangeDay /\ currentSimDay % 3 = 0
        tempAmplitude == (climateProps.tempRange[2] - climateProps.tempRange[1]) \div 2
        tempAverage == (climateProps.tempRange[2] + climateProps.tempRange[1]) \div 2
        baseTemperature == tempAverage + (tempAmplitude * SinDay(timeOfDay)) \div Scale
        windSpeed == IF g.tickCounter % 5 = 0 THEN draw.windSpeed ELSE w.currentWindSpeed
        humidityChange ==
            Frac(totalEvaporation, RATES.evaporationHumidityGain[1],
                 RATES.evaporationHumidityGain[2])
            - Frac(windSpeed, RATES.windHumidityLoss[1], RATES.windHumidityLoss[2])
            + Frac(OrDefault(climateProps.humidityAvg, 60 * Scale) - w.currentHumidity, 5, 100)
        beeLevelFactor == clamp(g.beneficialAttractionLevel \div 10, 0, Scale)
        beeWindReduction == (beeLevelFactor * RATES.beePollinationWindReduction) \div Scale
    IN  [ w EXCEPT
            !.simulatedTimeOfDay = timeOfDay,
            !.currentWindDirection = IF reroll THEN draw.direction ELSE @,
            !.lastWindChangeDay = IF reroll THEN currentSimDay ELSE @,
            !.ambientTemperature = baseTemperature + draw.fluctuation,
            !.currentWindSpeed = windSpeed,
            !.currentHumidity = clamp(w.currentHumidity + humidityChange, 0, 100 * Scale),
            !.isPollinated = windSpeed >= THRESHOLDS.pollinationWindThreshold - beeWindReduction ]

----------------------------------------------------------------------------
(* main.js: resetInterval.  The interval timers of the page are the set    *)
(* activeIntervals of their ids, mainIntervalId is the id the program      *)
(* holds (0 for null); setInterval returns an id no active timer has.      *)

\* (variant: the new timer is set without clearing the one that runs)
resetIntervalNoClear(g) ==
    LET id == CHOOSE i \in 1 .. (Cardinality(g.activeIntervals) + 1) :
                  i \notin g.activeIntervals
    IN  IF ~g.isPaused
        THEN [ g EXCEPT !.mainIntervalId = id, !.activeIntervals = @ \cup { id } ]
        ELSE g

resetInterval(g) ==
    LET cleared == IF g.mainIntervalId # 0
                   THEN [ g EXCEPT !.activeIntervals = @ \ { g.mainIntervalId },
                                   !.mainIntervalId = 0 ]
                   ELSE g
        id == CHOOSE i \in 1 .. (Cardinality(cleared.activeIntervals) + 1) :
                  i \notin cleared.activeIntervals
    IN  IF ~cleared.isPaused
        THEN [ cleared EXCEPT !.mainIntervalId = id, !.activeIntervals = @ \cup { id } ]
        ELSE cleared

----------------------------------------------------------------------------
(* main.js: initializeGrid.  weedy is the set of cells that start with a   *)
(* weed, bee the random position of the pollinator, draw the random draws  *)
(* of the first updateWeather call.                                        *)

initializeGrid(weedy, bee, draw) ==
    LET climateProps == CLIMATE_PROPERTIES["Temperate"]
        ambient == (climateProps.tempRange[1] + climateProps.tempRange[2]) \div 2
        w0 == [ currentClimate |-> "Temperate",
                ambientTemperature |-> ambient,
                currentHumidity |-> climateProps.humidityAvg,
                currentWindSpeed |-> 0,
                currentWindDirection |-> "None",
                isPollinated |-> FALSE,
                simulatedTimeOfDay |-> 6 * 60,
                simulatedDaysElapsed |-> 0,
                lastWindChangeDay |-> -1 ]
        g0 == resetInterval([ tickCounter |-> 0,
                              harvestData |-> [ t \in PlantTypes |-> 0 ],
                              beneficialAttractionLevel |-> 0,
                              playerMoney |-> 150,
                              beePosition |-> bee,
                              simulationSpeed |-> 1,
                              isPaused |-> FALSE,
                              mainIntervalId |-> 0,
                              activeIntervals |-> {} ])
    IN  /\ soil = [ c \in Cells |-> SoilDEFAULTS ]
        /\ variables = [ c \in Cells |->
                           [ temperature |-> ambient,
                             weeds |-> IF c \in weedy THEN 1 ELSE 0,
                             pests |-> NoPests ] ]
        /\ plant = [ c \in Cells |-> NoPlant ]
        /\ structure = [ c \in Cells |-> NoStructure ]
        /\ weather = updateWeather(w0, g0, 0, 0, draw)
        /\ game = g0
        /\ tick = [ pc |-> 0, elapsedSimMinutes |-> 0, totalGridEvaporation |-> 0,
                    currentBeneficialAttraction |-> 0, outcome |-> "none" ]
        /\ actionResult = [ mode |-> "none" ]
        /\ clicks = 0

----------------------------------------------------------------------------
(* square.js: the action methods of Square, each as the new value of the   *)
(* square maps, and main.js: handleSquareClick, one action per mode.       *)

\* the click handler is blocked in confirm(): the dialog is on the screen
\* and the page runs neither a click handler nor a timer callback
confirmOpen == actionResult.mode = "confirm"

\* a click is handled between two timer callbacks, never inside one
ClickEnabled == tick.pc = 0 /\ ~confirmOpen

\* addWater on a square without an Olla: the soil map after the call
addWaterSoil(c) ==
    LET waterAmount == RATES.waterMoistureAdd
        splash == (waterAmount * 20) \div 100
        wet == addMoisture(soil[c], waterAmount)
        own == [ wet EXCEPT !.compaction = clamp(wet.compaction + RATES.waterCompactionAdd,
                                                 0, THRESHOLDS.compactionMax) ]
    IN  [ n \in Cells |->
            IF n = c THEN updateDerivedVariables(own)
            ELSE IF n \in getNeighbors(c[1], c[2], TRUE, 1) THEN addMoisture(soil[n], splash)
            ELSE soil[n] ]

\* addWater on a square with an Olla: the amount of the refill
waterAdded(st) == Min(RATES.waterMoistureAdd * 4, THRESHOLDS.ollaMaxWater - st.waterLevel)

AddWater(c) ==
    /\ ClickEnabled
    /\ IF structure[c].type = "Olla"
       THEN /\ structure' = [ structure EXCEPT
                                ![c].waterLevel = @ + waterAdded(structure[c]) ]
            /\ soil' = [ soil EXCEPT ![c] = updateDerivedVariables(@) ]
            /\ UNCHANGED variables
       ELSE /\ soil' = addWaterSoil(c)
            /\ variables' = [ variables EXCEPT
                                ![c].temperature =
                                    Max(0, OrDefault(@, 20 * Scale) - RATES.wateringCooling) ]
            /\ UNCHANGED structure
    /\ actionResult' = [ mode |-> "water", key |-> c, result |-> TRUE ]
    /\ clicks' = clicks + 1
    /\ UNCHANGED << plant, weather, game, tick >>

addAmendment(s, type) ==
    CASE type = "compost" ->
            updateDerivedVariables(
                addMoisture([ s EXCEPT
                                !.organicMatter = @ + RATES.compostOM,
                                !.microbes = clamp(@ + RATES.compostMicrobeAdd, 0, 1000 * Scale) ],
                            RATES.compostMoistureAdd))
      [] type = "crh" ->
            updateDerivedVariables(
                [ addMoisture(s, - RATES.crhMoistureReduce) EXCEPT
                    !.compaction = clamp(@ - RATES.crhCompactionReduce, 0,
                                         THRESHOLDS.compactionMax),
                    !.organicMatter = @ + RATES.crhOmAdd,
                    !.pH = clamp(OrDefault(@, 7 * Scale) + RATES.crhPhIncrease,
                                 THRESHOLDS.phMin, THRESHOLDS.phMax) ])
      [] type = "sand" ->
            updateDerivedVariables(addMoisture(s, - RATES.sandMoistureReduce))
      [] OTHER -> s

AddAmendment(c, type) ==
    /\ ClickEnabled
    /\ soil' = [ soil EXCEPT ![c] = addAmendment(@, type) ]
    /\ actionResult' = [ mode |-> "add_amendment", key |-> c, type |-> type,
                         result |-> type \in { "compost", "crh", "sand" } ]
    /\ clicks' = clicks + 1
    /\ UNCHANGED << variables, plant, structure, weather, game, tick >>

\* the structure map after the Trellis or Net of square c is taken away:
\* every neighbour the structure was connected to loses its mirrored flag
\* the neighbours whose mirrored flag the removal of the structure of c clears
clearedNeighbors(c) ==
    { n \in Cells :
        /\ HasStructure(n)
        /\ \E dir \in Directions :
              /\ structure[c].connections[dir]
              /\ n = Toward(c, dir)
              /\ structure[n].connections[Opposite(dir)] }

\* (variant: the structure is taken away and no neighbour is told)
clearConnectionsOwnOnly(c) ==
    [ structure EXCEPT ![c] = NoStructure ]

clearConnections(c) ==
    [ n \in Cells |->
        IF n = c THEN NoStructure
        ELSE IF /\ \E dir \in Directions :
                     /\ structure[c].connections[dir]
                     /\ n = Toward(c, dir)
                /\ HasStructure(n)
             THEN LET dir == CHOOSE d \in Directions : n = Toward(c, d)
                  IN  [ structure[n] EXCEPT !.connections[Opposite(dir)] = FALSE ]
             ELSE structure[n] ]

\* (variant: the soil effects without the floor at 0)
tillSoilNoFloor(s) ==
    [ s EXCEPT !.compaction = @ - RATES.tillCompactionReduce,
               !.microbes = @ - RATES.tillMicrobesReduce ]

\* till: the soil effects, before the derived variables are refreshed
tillSoil(s) ==
    [ s EXCEPT !.compaction = Max(0, @ - RATES.tillCompactionReduce),
               !.microbes = Max(0, @ - RATES.tillMicrobesReduce) ]

Till(c) ==
    /\ ClickEnabled
    /\ soil' = [ soil EXCEPT ![c] = updateDerivedVariables(tillSoil(@)) ]
    /\ variables' = [ variables EXCEPT ![c].weeds = 0 ]
    /\ structure' = IF structure[c].type \in { "Trellis", "Net" }
                    THEN clearConnections(c)
                    ELSE structure
    /\ actionResult' = [ mode |-> "till", key |-> c,
                         removed |-> (IF variables[c].weeds > 0 THEN { "weeds" } ELSE {})
                                     \cup (IF structure[c].type \in { "Trellis", "Net" }
                                           THEN { structure[c].type } ELSE {}),
                         cleared |-> IF structure[c].type \in { "Trellis", "Net" }
                                     THEN clearedNeighbors(c) ELSE {} ]
    /\ clicks' = clicks + 1
    /\ UNCHANGED << plant, weather, game, tick >>

RemoveEntity(c) ==
    /\ ClickEnabled
    /\ IF HasPlant(c)
       THEN /\ plant' = [ plant EXCEPT ![c] = NoPlant ]
            /\ UNCHANGED structure
       ELSE /\ structure' = IF structure[c].type \in { "Trellis", "Net" }
                            THEN clearConnections(c)
                            ELSE [ structure EXCEPT ![c] = NoStructure ]
            /\ UNCHANGED plant
    /\ actionResult' = [ mode |-> "remove", key |-> c,
                         removed |-> IF HasPlant(c) THEN plant[c].type
                                     ELSE structure[c].type,
                         cleared |-> IF ~HasPlant(c) /\ structure[c].type \in { "Trellis", "Net" }
                                     THEN clearedNeighbors(c) ELSE {} ]
    /\ clicks' = clicks + 1
    /\ UNCHANGED << soil, variables, weather, game, tick >>

ApplyNeem(c) ==
    /\ ClickEnabled
    /\ variables' = [ variables EXCEPT
                        ![c].pests = IF @.type = "Aphids" THEN NoPests ELSE @ ]
    /\ actionResult' = [ mode |-> "apply_neem", key |-> c,
                         result |-> variables[c].pests.type = "Aphids" ]
    /\ clicks' = clicks + 1
    /\ UNCHANGED << soil, plant, structure, weather, game, tick >>

\* (variant: only a plant keeps a seed out, a structure does not)
squareHasNoPlant(c) == ~HasPlant(c)

\* tryPlanting: the square is empty (no plant, no structure)
squareIsEmpty(c) == ~HasPlant(c) /\ ~HasStructure(c)

TryPlanting(c, plantType) ==
    /\ ClickEnabled
    /\ plant' = IF squareIsEmpty(c)
                THEN [ plant EXCEPT ![c] = NewPlant(plantType) ]
                ELSE plant
    /\ actionResult' = [ mode |-> "plant", key |-> c, type |-> plantType,
                         result |-> squareIsEmpty(c) ]
    /\ clicks' = clicks + 1
    /\ UNCHANGED << soil, variables, structure, weather, game, tick >>

\* the same-type structures orthogonally adjacent to c
adjacentActiveNeighbors(c, structureType) ==
    { n \in getNeighbors(c[1], c[2], TRUE, 1) : structure[n].type = structureType }

\* (variant: only the new structure gets its flags set)
placeAndConnectOneSided(c, structureType) ==
    [ structure EXCEPT ![c] =
        [ NewStructure(structureType) EXCEPT !.connections =
            [ dir \in Directions |->
                Toward(c, dir) \in adjacentActiveNeighbors(c, structureType) ] ] ]

\* the structure map after a Trellis or Net is placed on c and connected
placeAndConnect(c, structureType) ==
    LET adj == adjacentActiveNeighbors(c, structureType)
        placed == NewStructure(structureType)
    IN  [ n \in Cells |->
            IF n = c
            THEN [ placed EXCEPT !.connections =
                     [ dir \in Directions |-> Toward(c, dir) \in adj ] ]
            ELSE IF n \in adj
            THEN LET dir == CHOOSE d \in Directions : n = Toward(c, d)
                 IN  [ structure[n] EXCEPT !.connections[Opposite(dir)] = TRUE ]
            ELSE structure[n] ]

\* userConfirmed is the answer to the blocking confirm() dialog, which is
\* shown only when a same-type neighbour exists
TryAddingStructure(c, structureType, userConfirmed) ==
    /\ ClickEnabled
    /\ LET valid == structureType \in STRUCTURE_INFO
           free == ~HasPlant(c) /\ ~HasStructure(c)
           adj == adjacentActiveNeighbors(c, structureType)
       IN  /\ structure' =
                 IF ~valid \/ ~free THEN structure
                 ELSE IF structureType \in { "Trellis", "Net" } /\ adj # {} /\ userConfirmed
                 THEN placeAndConnect(c, structureType)
                 ELSE [ structure EXCEPT ![c] = NewStructure(structureType) ]
           /\ actionResult' = [ mode |-> "add_structure", key |-> c, type |-> structureType,
                                asked |-> valid /\ free /\ adj # {}
                                          /\ structureType \in { "Trellis", "Net" },
                                userConfirmed |->
                                    ( valid /\ free /\ adj # {}
                                      /\ structureType \in { "Trellis", "Net" } )
                                    => userConfirmed,
                                result |-> valid /\ free ]
    /\ clicks' = clicks + 1
    /\ UNCHANGED << soil, variables, plant, weather, game, tick >>

\* tryAddingStructure up to the call of confirm(): a Trellis or Net is about
\* to be placed next to a structure of its type
confirmNeeded(c, structureType) ==
    /\ structureType \in STRUCTURE_INFO
    /\ ~HasPlant(c) /\ ~HasStructure(c)
    /\ structureType \in { "Trellis", "Net" }
    /\ adjacentActiveNeighbors(c, structureType) # {}

\* (variant: the structure is put on the square before the player answers)
structureWhileAskingPlaced(c, structureType) ==
    [ structure EXCEPT ![c] = NewStructure(structureType) ]

\* the structure map while confirm() is open: the new structure is a local
\* of the handler, not yet on the square
structureWhileAsking(c, structureType) == structure

\* the handler reaches confirm() and blocks
ConfirmOpens(c, structureType) ==
    /\ ClickEnabled
    /\ confirmNeeded(c, structureType)
    /\ structure' = structureWhileAsking(c, structureType)
    /\ actionResult' = [ mode |-> "confirm", key |-> c, type |-> structureType ]
    /\ UNCHANGED << soil, variables, plant, weather, game, tick, clicks >>

\* confirm() returns userConfirmed and the handler runs to its end
ConfirmAnswered(userConfirmed) ==
    /\ confirmOpen
    /\ LET c == actionResult.key
           structureType == actionResult.type
       IN  /\ structure' = IF userConfirmed
                           THEN placeAndConnect(c, structureType)
                           ELSE [ structure EXCEPT ![c] = NewStructure(structureType) ]
           /\ actionResult' = [ mode |-> "add_structure", key |-> c, type |-> structureType,
                                asked |-> TRUE, userConfirmed |-> userConfirmed,
                                result |-> TRUE ]
    /\ clicks' = clicks + 1
    /\ UNCHANGED << soil, variables, plant, weather, game, tick >>

\* mode 'shop': the soil conditioner is applied only if the player can pay
ApplySoilConditioner(c) ==
    /\ ClickEnabled
    /\ LET costSC == SHOP_COSTS.soilConditioner
           paid == game.playerMoney >= costSC
       IN  /\ soil' = IF paid
                      THEN [ soil EXCEPT ![c] =
                               NewSoil(70 * Scale, 30 * Scale, 80 * Scale, 20 * Scale,
                                       80 * Scale, (65 * Scale) \div 10) ]
                      ELSE soil
           /\ variables' = IF paid
                           THEN [ variables EXCEPT ![c].weeds = 0, ![c].pests = NoPests ]
                           ELSE variables
           /\ game' = IF paid THEN [ game EXCEPT !.playerMoney = @ - costSC ] ELSE game
           /\ actionResult' = [ mode |-> "shop", key |-> c, result |-> paid ]
    /\ clicks' = clicks + 1
    /\ UNCHANGED << plant, structure, weather, tick >>

harvestableStage(type) == IF type \in { "Flower", "Marigold", "Basil" } THEN 2 ELSE 3

requiresPollination(type) ==
    PLANT_PROPERTIES[type].maxYield > 0 \/ type \in { "Beans", "Squash", "Tomato" }

canHarvest(p) ==
    /\ p.growthStage >= harvestableStage(p.type)
    /\ (~requiresPollination(p.type) \/ p.wasPollinated)

\* the reason a failed harvest of plant p reports; "stage" stands for the
\* text `stage ${growthStage}`
\* (variant: the first reason found is the reason reported)
harvestFailReasonFirst(p) ==
    IF p.growthStage < harvestableStage(p.type) THEN "immature"
    ELSE "stage"

harvestFailReason(p) ==
    IF requiresPollination(p.type) /\ ~p.wasPollinated THEN "unpollinated"
    ELSE IF p.growthStage < harvestableStage(p.type) THEN "immature"
    ELSE "stage"

harvestedYield(c) ==
    LET p == plant[c]
        props == PLANT_PROPERTIES[p.type]
        soilCondFactor == clamp(soil[c].soilCondition \div 100, 0, Scale)
        rootHealthFactor == clamp(p.rootHealth \div 100, 0, Scale)
        base == clamp((soilCondFactor + rootHealthFactor) \div 2, 0, Scale)
        trellis == IF structure[c].type = "Trellis" /\ p.type \in { "Beans", "Squash", "Tomato" }
                   THEN Min(Scale, (base * 13) \div 10) ELSE base
        potentialYieldFactor == IF variables[c].pests.type # "null"
                                THEN (trellis * 6) \div 10 ELSE trellis
        rounded == Max(0, (props.maxYield * potentialYieldFactor + Scale \div 2) \div Scale)
    IN  IF props.maxYield = 0 /\ rounded = 0 /\ p.type \in { "Flower", "Marigold", "Basil" }
        THEN 1 ELSE rounded

\* Square.harvestPlant: the result object.  In a failure, stage is the
\* number the text `stage ${growthStage}` is built from
harvestPlant(c) ==
    IF ~HasPlant(c) THEN [ harvested |-> FALSE, reason |-> "empty" ]
    ELSE IF plant[c].growthStage = 4
    THEN [ harvested |-> FALSE, reason |-> "senescent", type |-> plant[c].type ]
    ELSE IF canHarvest(plant[c])
    THEN [ harvested |-> TRUE, yield |-> harvestedYield(c),
           value |-> harvestedYield(c) * PLANT_PROPERTIES[plant[c].type].price,
           type |-> plant[c].type ]
    ELSE [ harvested |-> FALSE, reason |-> harvestFailReason(plant[c]),
           stage |-> plant[c].growthStage, type |-> plant[c].type ]

\* mode 'harvest': a successful harvest removes the plant (a perennial
\* too), books the yield and pays the player; nothing else is touched
Harvest(c) ==
    /\ ClickEnabled
    /\ LET r == harvestPlant(c)
       IN  /\ plant' = IF r.harvested THEN [ plant EXCEPT ![c] = NoPlant ] ELSE plant
           /\ game' = IF r.harvested
                      THEN [ game EXCEPT !.harvestData[r.type] = @ + r.yield,
                                         !.playerMoney = @ + r.value ]
                      ELSE game
           /\ actionResult' = [ mode |-> "harvest", key |-> c, harvest |-> r ]
    /\ clicks' = clicks + 1
    /\ UNCHANGED << soil, variables, structure, weather, tick >>

----------------------------------------------------------------------------
(* square.js: the per-tick methods of Square *)

\* updateEnvironment: the local temperature
localTemperature(c) ==
    LET coolingFromEvap == Frac(soil[c].evaporationRate, RATES.evaporationCoolingFactor[1],
                                RATES.evaporationCoolingFactor[2])
        coolingFromMoist == IF soil[c].moisture >= THRESHOLDS.moist
                            THEN RATES.moistSoilCoolingFactor ELSE 0
    IN  clamp(weather.ambientTemperature - coolingFromEvap - coolingFromMoist,
              -10 * Scale, 50 * Scale)

\* updateEnvironment: a large enough Squash on the square or next to it
\* halves the evaporation
squashModifier(c) ==
    IF \E n \in { c } \cup getNeighbors(c[1], c[2], TRUE, 1) :
           plant[n].type = "Squash" /\ plant[n].size >= THRESHOLDS.squashEffectSize
    THEN Scale \div 2 ELSE Scale

\* updateEnvironment: the amount evaporated, returned to the caller
evaporated(c) ==
    evaporationAmount(soil[c],
        evaporationRate(localTemperature(c), weather.currentHumidity, squashModifier(c)))

\* updateEnvironment: the soil of the square after the call
updateEnvironment(c) ==
    LET t == localTemperature(c)
    IN  updateWetDuration(updatePH(updateMicrobes(updateDegradation(
            applyEvaporation(soil[c], t, weather.currentHumidity,
                             weather.currentWindSpeed, squashModifier(c))), t)))

\* updateEntities: the two rings an Olla on c waters
neighbors1(c) == getNeighbors(c[1], c[2], TRUE, 1)
neighbors2(c) == (getNeighbors(c[1], c[2], TRUE, 2) \ neighbors1(c)) \ { c }

\* (variant: every inner neighbour gets the whole share of its ring)
releasePerNeighbor1Undivided(c, released) ==
    Frac(released, RATES.ollaDistributionRadius1Ratio[1], RATES.ollaDistributionRadius1Ratio[2])

releasePerNeighbor1(c, released) ==
    IF neighbors1(c) # {}
    THEN Frac(released, RATES.ollaDistributionRadius1Ratio[1],
              RATES.ollaDistributionRadius1Ratio[2]) \div Cardinality(neighbors1(c))
    ELSE 0

releasePerNeighbor2(c, released) ==
    IF neighbors2(c) # {}
    THEN Frac(released, RATES.ollaDistributionRadius2Ratio[1],
              RATES.ollaDistributionRadius2Ratio[2]) \div Cardinality(neighbors2(c))
    ELSE 0

\* updateEntities: soil map sm after the Olla on c has distributed `released`
distributeOllaWater(sm, c, released) ==
    IF released > 0
    THEN [ n \in Cells |->
             IF n \in neighbors1(c) THEN addMoisture(sm[n], releasePerNeighbor1(c, released))
             ELSE IF n \in neighbors2(c)
             THEN addMoisture(sm[n], releasePerNeighbor2(c, released))
             ELSE sm[n] ]
    ELSE sm

\* updateEntities: the plant after Plant.update returned normally, which it
\* does only through the senescent-or-dead exit, and the pollination check
updatedPlant(c, elapsedSimMinutes) ==
    LET p == handleSenescence(updateAge(plant[c], elapsedSimMinutes))
        beeIsOnSquare == game.beePosition = c
    IN  [ p EXCEPT !.wasPollinated = @ \/ weather.isPollinated \/ beeIsOnSquare ]

\* (variant: a senescent plant is never too small to live)
plantDiedUnlessTiny(p) ==
    \/ p.size <= 0
    \/ p.rootHealth <= 0

\* updateEntities: the death check
plantDied(p) ==
    \/ p.size <= 0
    \/ p.rootHealth <= 0
    \/ (p.growthStage = 4 /\ p.size < Micro \div 100)

\* updateEntities: soil map sm after the plant p on c has applied its
\* neighbour effects (Beans add organic matter and microbes)
applyNeighborEffects(sm, c, p) ==
    IF p.type # "undefined" /\ PLANT_PROPERTIES[p.type].addsOM
    THEN LET bonus == IF p.rootDensity >= Scale /\ p.rootHealth >= 80 * Scale
                      THEN 15 ELSE 10
         IN  [ n \in Cells |->
                 IF n \in getNeighbors(c[1], c[2], TRUE, 1)
                 THEN [ sm[n] EXCEPT
                          !.organicMatter = Max(0, @ + (RATES.beansOMRate * bonus) \div 10),
                          !.microbes = clamp(@ + (RATES.beansMICRate * bonus) \div 10,
                                             0, 1000 * Scale) ]
                 ELSE sm[n] ]
    ELSE sm

\* the random draws of the update of one square: which rolls succeed, the
\* neighbour a weed picks to spread to, the neighbours whose Nematodes a
\* Marigold suppresses.  In QuietDraw no roll succeeds
QuietDraw ==
    [ weedGrows |-> FALSE, weedSpreads |-> FALSE, spreadTo |-> << 0, 0 >>,
      nematodes |-> FALSE, aphids |-> FALSE, levelUp |-> FALSE,
      ladybeetles |-> FALSE, microbeDefense |-> FALSE, suppressed |-> {} ]

\* (variant: the suppressed Nematodes keep their type at level 0)
suppressNematodesKeepsType(pm, c, p, suppressed) ==
    IF p.type = "Marigold"
    THEN [ n \in Cells |->
             IF /\ n \in getNeighbors(c[1], c[2], TRUE, 1)
                /\ n \in suppressed
                /\ pm[n].type = "Nematodes"
             THEN [ pm[n] EXCEPT !.level = Max(0, @ - 1) ]
             ELSE pm[n] ]
    ELSE pm

\* updateEntities: pests map pm after the Marigold p on c has rolled against
\* the Nematodes of its neighbours; suppressed is where the roll succeeded
suppressNematodes(pm, c, p, suppressed) ==
    IF p.type = "Marigold"
    THEN [ n \in Cells |->
             IF /\ n \in getNeighbors(c[1], c[2], TRUE, 1)
                /\ n \in suppressed
                /\ pm[n].type = "Nematodes"
             THEN IF pm[n].level - 1 <= 0 THEN [ type |-> "null", level |-> 0 ]
                  ELSE [ pm[n] EXCEPT !.level = @ - 1 ]
             ELSE pm[n] ]
    ELSE pm

\* (variant: the wind is ignored)
downwindNeighborsAnyWind(c, windDirection) == getNeighbors(c[1], c[2], TRUE, 1)

\* updateWeeds: the neighbours a level-4 weed can spread to under the wind
downwindNeighbors(c, windDirection) ==
    { n \in getNeighbors(c[1], c[2], TRUE, 1) :
        CASE windDirection = "N" -> n[2] > c[2]
          [] windDirection = "E" -> n[1] < c[1]
          [] windDirection = "S" -> n[2] < c[2]
          [] windDirection = "W" -> n[1] > c[1]
          [] OTHER -> TRUE }

\* updatePests: the pests of the square, given its plant pl and soil s
updatePests(pests, pl, s, draw) ==
    LET hasPlant == pl.type # "undefined"
        nematodesPossible == /\ s.wetDuration >= THRESHOLDS.nematodeWetDuration
                             /\ s.microbes < THRESHOLDS.highMicrobesForNematodeDefense
        spawned == IF draw.nematodes /\ nematodesPossible
                   THEN [ type |-> "Nematodes", level |-> 1 ]
                   ELSE IF draw.aphids /\ hasPlant
                   THEN [ type |-> "Aphids", level |-> 1 ]
                   ELSE pests
        levelled == IF pests.level < 4 /\ draw.levelUp
                    THEN [ pests EXCEPT !.level = @ + 1 ] ELSE pests
        beetles == IF /\ levelled.type = "Aphids"
                      /\ game.beneficialAttractionLevel
                           >= THRESHOLDS.beneficialAttractionThreshold
                      /\ draw.ladybeetles
                   THEN IF levelled.level - 1 <= 0 THEN [ type |-> "null", level |-> 0 ]
                        ELSE [ levelled EXCEPT !.level = @ - 1 ]
                   ELSE levelled
        defended == IF /\ beetles.type = "Nematodes"
                       /\ s.microbes > THRESHOLDS.highMicrobesForNematodeDefense
                       /\ draw.microbeDefense
                    THEN NoPests ELSE beetles
    IN  IF pests.type = "null" THEN spawned
        ELSE IF ~hasPlant THEN NoPests
        ELSE defended

----------------------------------------------------------------------------
(* main.js: updateAllSquares, the timer callback.  The callback runs to    *)
(* its end, or to the statement that throws, before any click is handled;  *)
(* the model walks through it square by square: tick.pc is 0 between two   *)
(* callbacks, i while square number i is next, and NumCells + 1 when the   *)
(* global phase (updateWeather, updateBee) is next.                        *)

\* no callback is running; the locals of the last one are gone
IdleTick == [ pc |-> 0, elapsedSimMinutes |-> 0, totalGridEvaporation |-> 0,
              currentBeneficialAttraction |-> 0, outcome |-> "none" ]

\* the simulated minutes one callback can cover: one timer period at speed
\* 1x, or more when the timer was delayed
ElapsedChoices == { 72, 120 * 1440 }

TickBegin(elapsedSimMinutes) ==
    /\ tick.pc = 0
    /\ ~confirmOpen
    /\ game.activeIntervals # {}
    /\ game' = [ game EXCEPT !.tickCounter = @ + 1 ]
    /\ weather' = [ weather EXCEPT !.simulatedDaysElapsed = @ + elapsedSimMinutes ]
    /\ tick' = [ pc |-> 1, elapsedSimMinutes |-> elapsedSimMinutes,
                 totalGridEvaporation |-> 0, currentBeneficialAttraction |-> 0,
                 outcome |-> "running" ]
    /\ UNCHANGED << soil, variables, plant, structure, actionResult, clicks >>

\* does Plant.update of the plant on c reach _calculateLightFactor
plantUpdateThrows(c, elapsedSimMinutes) ==
    /\ HasPlant(c)
    /\ ~senescentOrDead(updateAge(plant[c], elapsedSimMinutes))
    /\ calculateLightFactorThrows

\* the callback dies in the update of square c: what was written before the
\* throw stays written, the rest of the callback never runs
TickCellThrows(c) ==
    /\ soil' = [ soil EXCEPT ![c] = updateEnvironment(c) ]
    /\ variables' = [ variables EXCEPT ![c].temperature = localTemperature(c) ]
    /\ plant' = [ plant EXCEPT ![c] =
                   updateMaturityAndStage(updateAge(plant[c], tick.elapsedSimMinutes),
                                          tick.elapsedSimMinutes, updateEnvironment(c)) ]
    /\ tick' = [ IdleTick EXCEPT
                   !.outcome = "ReferenceError: simulatedTimeOfDay is not defined" ]
    /\ UNCHANGED << structure, weather, game, actionResult, clicks >>

\* the update of square c runs to its end
TickCellCompletes(c, draw) ==
    LET released == releaseAmount(structure[c])
        soilEnv == [ soil EXCEPT ![c] = updateEnvironment(c) ]
        soilOlla == distributeOllaWater(soilEnv, c, released)
        updated == IF HasPlant(c) THEN updatedPlant(c, tick.elapsedSimMinutes) ELSE NoPlant
        died == HasPlant(c) /\ plantDied(updated)
        pl == IF died THEN NoPlant ELSE updated
        soilEffects == applyNeighborEffects(soilOlla, c, pl)
        soilOxygen == [ soilEffects EXCEPT ![c] = updateOxygen(@, 0) ]
        pestsDeath == [ n \in Cells |->
                          IF n = c /\ died THEN NoPests ELSE variables[n].pests ]
        pestsMarigold == suppressNematodes(pestsDeath, c, pl, draw.suppressed)
        currentWeeds == variables[c].weeds
        grown == IF currentWeeds > 0 /\ currentWeeds < 4 /\ draw.weedGrows
                 THEN currentWeeds + 1 ELSE currentWeeds
        soilSap == IF currentWeeds > 0
                   THEN [ soilOxygen EXCEPT ![c].bioavailableNutrition =
                            Max(0, @ - RATES.weedNutrientSapRate * currentWeeds) ]
                   ELSE soilOxygen
        spreads == /\ currentWeeds = 4
                   /\ draw.weedSpreads
                   /\ draw.spreadTo \in downwindNeighbors(c, weather.currentWindDirection)
                   /\ variables[draw.spreadTo].weeds = 0
                   /\ plant[draw.spreadTo].type = "undefined"
                   /\ structure[draw.spreadTo].type = "null"
        pestsOwn == updatePests(pestsMarigold[c], pl, soilSap[c], draw)
        attracts == /\ pl.type # "undefined"
                    /\ PLANT_PROPERTIES[pl.type].attractsBeneficials
                    /\ pl.maturityProgress >= THRESHOLDS.plantMaturityForBeneficials
    IN  /\ structure' = [ structure EXCEPT ![c] = StructureUpdate(@) ]
        /\ plant' = [ plant EXCEPT ![c] = pl ]
        /\ soil' = [ soilSap EXCEPT ![c] = updateDerivedVariables(@) ]
        /\ variables' =
              [ n \in Cells |->
                  [ temperature |-> IF n = c THEN localTemperature(c)
                                    ELSE variables[n].temperature,
                    weeds |-> IF n = c THEN grown
                              ELSE IF spreads /\ n = draw.spreadTo THEN 1
                              ELSE variables[n].weeds,
                    pests |-> IF n = c THEN pestsOwn ELSE pestsMarigold[n] ] ]
        /\ tick' = [ tick EXCEPT
                       !.pc = @ + 1,
                       !.totalGridEvaporation = @ + evaporated(c),
                       !.currentBeneficialAttraction =
                           @ + (IF attracts THEN RATES.beneficialAttractionGain ELSE 0) ]
        /\ UNCHANGED << weather, game, actionResult, clicks >>

TickCell(draw) ==
    /\ tick.pc \in 1 .. NumCells
    /\ LET c == CellAt(tick.pc)
       IN  IF plantUpdateThrows(c, tick.elapsedSimMinutes)
           THEN TickCellThrows(c)
           ELSE TickCellCompletes(c, draw)

\* updateBee reads Config, which no statement of main.js declares in its
\* scope: the read throws a ReferenceError.  It is evaluated only for a
\* neighbour of the pollinator that holds a plant attracting beneficials
\* (the && before it short-circuits otherwise)
updateBeeThrows ==
    \E n \in getNeighbors(game.beePosition[1], game.beePosition[2], TRUE, 1) :
        HasPlant(n) /\ PLANT_PROPERTIES[plant[n].type].attractsBeneficials

\* the global phase: updateWeather, updateBee, the beneficial attraction.
\* draw holds the random draws of updateWeather, nextBee the neighbour
\* updateBee picks
TickEnd(draw, nextBee) ==
    /\ tick.pc = NumCells + 1
    /\ weather' = updateWeather(weather, game, tick.totalGridEvaporation,
                                tick.elapsedSimMinutes, draw)
    /\ IF updateBeeThrows
       THEN /\ nextBee = game.beePosition
            /\ tick' = [ IdleTick EXCEPT !.outcome = "ReferenceError: Config is not defined" ]
            /\ UNCHANGED game
       ELSE /\ nextBee \in getNeighbors(game.beePosition[1], game.beePosition[2], TRUE, 1)
            /\ tick' = [ IdleTick EXCEPT !.outcome = "completed" ]
            /\ game' = [ game EXCEPT
                           !.beePosition = nextBee,
                           !.beneficialAttractionLevel =
                               Max(0, Frac(@, RATES.beneficialDecay[1], RATES.beneficialDecay[2])
                                      + tick.currentBeneficialAttraction) ]
    /\ UNCHANGED << soil, variables, plant, structure, actionResult, clicks >>

\* the draws in which at most one roll of a square's update succeeds
OneRollDraws ==
    { QuietDraw,
      [ QuietDraw EXCEPT !.weedGrows = TRUE ],
      [ QuietDraw EXCEPT !.nematodes = TRUE ],
      [ QuietDraw EXCEPT !.aphids = TRUE ],
      [ QuietDraw EXCEPT !.levelUp = TRUE ],
      [ QuietDraw EXCEPT !.ladybeetles = TRUE ],
      [ QuietDraw EXCEPT !.microbeDefense = TRUE ] }
    \cup { [ QuietDraw EXCEPT !.weedSpreads = TRUE, !.spreadTo = n ] : n \in Cells }
    \cup { [ QuietDraw EXCEPT !.suppressed = { n } ] : n \in Cells }

----------------------------------------------------------------------------
(* The whole program: every click on every square, and the timer. *)

Init ==
    \E weedy \in SUBSET Cells, bee \in Cells, draw \in WeatherDraws("Temperate") :
        /\ Cardinality(weedy) <= 1
        /\ initializeGrid(weedy, bee, draw)

Click(c) ==
    \/ AddWater(c)
    \/ \E type \in { "compost", "crh", "sand" } : AddAmendment(c, type)
    \/ Till(c)
    \/ RemoveEntity(c)
    \/ ApplyNeem(c)
    \/ \E plantType \in PlantTypes : TryPlanting(c, plantType)
    \/ \E structureType \in STRUCTURE_INFO, userConfirmed \in BOOLEAN :
           TryAddingStructure(c, structureType, userConfirmed)
    \/ ApplySoilConditioner(c)
    \/ Harvest(c)

Tick ==
    \/ \E elapsedSimMinutes \in ElapsedChoices : TickBegin(elapsedSimMinutes)
    \/ \E draw \in OneRollDraws : TickCell(draw)
    \/ \E draw \in WeatherDraws(weather.currentClimate), nextBee \in Cells :
           TickEnd(draw, nextBee)

Next ==
    \/ \E c \in Cells : clicks < MaxClicks /\ Click(c)
    \/ (tick.pc = 0 => game.tickCounter < MaxTicks) /\ Tick

Spec == Init /\ [][Next]_vars

----------------------------------------------------------------------------
(* Structures: placing, tilling and removing on every square, with both    *)
(* answers to the connection dialog.                                       *)

\* clicks in a run of SpecConn
MaxConnClicks == 4

\* the squares clicked in a run of SpecConn: a corner, an edge and the centre
ConnCells == { << 0, 0 >>, << 1, 0 >>, << 1, 1 >> }

InitConn == initializeGrid({}, << 1, 1 >>, CalmDraw)

NextConn ==
    \/ \E c \in ConnCells, structureType \in { "Trellis", "Net" }, userConfirmed \in BOOLEAN :
           clicks < MaxConnClicks /\ TryAddingStructure(c, structureType, userConfirmed)
    \/ \E c \in ConnCells :
           clicks < MaxConnClicks /\ TryAddingStructure(c, "Olla", TRUE)
    \/ \E c \in ConnCells : clicks < MaxConnClicks /\ Till(c)
    \/ \E c \in ConnCells : clicks < MaxConnClicks /\ RemoveEntity(c)

SpecConn == InitConn /\ [][NextConn]_vars

\* C2: connectivity is symmetric: a structure has the flag of a direction
\* set if and only if the orthogonally adjacent square in that direction
\* holds a structure of the same type whose opposite flag is set
ConnectivitySymmetric ==
    \A c \in Cells :
        HasStructure(c) =>
            \A dir \in Directions :
                structure[c].connections[dir]
                <=> /\ Toward(c, dir) \in Cells
                    /\ structure[Toward(c, dir)].type = structure[c].type
                    /\ structure[Toward(c, dir)].connections[Opposite(dir)]

\* a chain of connected structures has lost one member and is still connected
ConnectedAfterRemoval ==
    /\ actionResult.mode \in { "till", "remove" }
    /\ actionResult.cleared # {}
    /\ \E c \in Cells, dir \in Directions :
          HasStructure(c) /\ structure[c].connections[dir]

\* C3: when a Trellis or Net is removed by Till or RemoveEntity, no
\* neighbouring structure keeps the flag that pointed at the removed one
RemovalClearsMirroredFlags ==
    [][ \A c \in Cells, dir \in Directions :
          ( /\ structure[c].type \in { "Trellis", "Net" }
            /\ structure'[c].type = "null"
            /\ Toward(c, dir) \in Cells
            /\ HasStructure(Toward(c, dir))
            /\ structure[Toward(c, dir)].connections[Opposite(dir)] )
          => /\ structure'[Toward(c, dir)].type = structure[Toward(c, dir)].type
             /\ ~structure'[Toward(c, dir)].connections[Opposite(dir)] ]_vars

\* Till has removed a connected structure and its neighbours are still there
TilledConnectedStructure ==
    /\ actionResult.mode = "till"
    /\ actionResult.cleared # {}
    /\ \A n \in actionResult.cleared : HasStructure(n)

----------------------------------------------------------------------------
(* Harvesting: one square is planted, harvested and cleared while the      *)
(* timer runs; a callback covers ten days or a whole season.               *)

\* clicks and timer callbacks in a run of SpecHarvest
MaxHarvestClicks == 4
MaxHarvestTicks == 3

HarvestCells == { << 0, 0 >> }
HarvestTypes == { "Corn", "Basil", "Flower", "Test" }
HarvestElapsed == { 10 * 1440, 120 * 1440 }
HarvestDraws == { QuietDraw, [ QuietDraw EXCEPT !.aphids = TRUE ] }

InitHarvest ==
    \E bee \in { << 2, 2 >>, << 1, 0 >> } : initializeGrid({}, bee, CalmDraw)

NextHarvest ==
    \/ \E c \in HarvestCells, plantType \in HarvestTypes :
           clicks < MaxHarvestClicks /\ TryPlanting(c, plantType)
    \/ \E c \in HarvestCells : clicks < MaxHarvestClicks /\ Harvest(c)
    \/ \E c \in HarvestCells : clicks < MaxHarvestClicks /\ RemoveEntity(c)
    \/ \E elapsedSimMinutes \in HarvestElapsed :
           game.tickCounter < MaxHarvestTicks /\ TickBegin(elapsedSimMinutes)
    \/ \E draw \in HarvestDraws : TickCell(draw)
    \/ \E nextBee \in Cells : TickEnd(CalmDraw, nextBee)

SpecHarvest == InitHarvest /\ [][NextHarvest]_vars

\* C5: every timer callback runs to completion: none dies with an error,
\* neither in the update of a plant nor in the update of the pollinator
EveryTickCompletes ==
    tick.outcome \in { "none", "running", "completed" }

\* the step is a harvest click on square c
HarvestStep(c) ==
    /\ clicks' = clicks + 1
    /\ actionResult'.mode = "harvest"
    /\ actionResult'.key = c

\* C6: right after a successful harvest the square holds no plant and its
\* pest entry is none (type null, level 0)
HarvestResetsPests ==
    [][ \A c \in Cells :
          (HarvestStep(c) /\ actionResult'.harvest.harvested)
          => (plant'[c] = NoPlant /\ variables'[c].pests = NoPests) ]_vars

\* C7: a harvest of a living plant below the harvestable stage of its
\* species fails with reason 'immature', pollinated or not
ImmatureHarvestSaysImmature ==
    [][ \A c \in Cells :
          ( /\ HarvestStep(c)
            /\ HasPlant(c)
            /\ plant[c].growthStage < harvestableStage(plant[c].type) )
          => ( /\ ~actionResult'.harvest.harvested
               /\ actionResult'.harvest.reason = "immature" ) ]_vars

\* C8: a failed harvest reports empty, senescent, immature or unpollinated
\* and changes nothing in the garden, the money or the ledger
FailedHarvestReasonAndNoChange ==
    [][ \A c \in Cells :
          (HarvestStep(c) /\ ~actionResult'.harvest.harvested)
          => ( /\ actionResult'.harvest.reason
                     \in { "empty", "senescent", "immature", "unpollinated" }
               /\ UNCHANGED << soil, variables, plant, structure, weather, game >> ) ]_vars

\* a harvest failed on a plant that has reached the harvestable stage
RipeHarvestFailed ==
    /\ actionResult.mode = "harvest"
    /\ ~actionResult.harvest.harvested
    /\ actionResult.harvest.reason = "unpollinated"
    /\ HasPlant(actionResult.key)
    /\ actionResult.harvest.stage >= harvestableStage(actionResult.harvest.type)

----------------------------------------------------------------------------
(* Growth: a square that may start with a weed is planted and cleared      *)
(* while the timer runs.                                                   *)

\* clicks and timer callbacks in a run of SpecGrowth
MaxGrowthClicks == 2
MaxGrowthTicks == 3

GrowthCells == { << 0, 0 >> }
GrowthTypes == { "Test", "Flower", "Corn" }
GrowthElapsed == { 10 * 1440, 120 * 1440 }
GrowthDraws == { QuietDraw, [ QuietDraw EXCEPT !.weedGrows = TRUE ] }

InitGrowth ==
    \E weedy \in { {}, { << 0, 0 >> } } : initializeGrid(weedy, << 2, 2 >>, CalmDraw)

NextGrowth ==
    \/ \E c \in GrowthCells, plantType \in GrowthTypes :
           clicks < MaxGrowthClicks /\ TryPlanting(c, plantType)
    \/ \E c \in GrowthCells : clicks < MaxGrowthClicks /\ RemoveEntity(c)
    \/ \E c \in GrowthCells : clicks < MaxGrowthClicks /\ Till(c)
    \/ \E elapsedSimMinutes \in GrowthElapsed :
           game.tickCounter < MaxGrowthTicks /\ TickBegin(elapsedSimMinutes)
    \/ \E draw \in GrowthDraws : TickCell(draw)
    \/ \E nextBee \in Cells : TickEnd(CalmDraw, nextBee)

SpecGrowth == InitGrowth /\ [][NextGrowth]_vars

\* C1: the growth stage of a plant never decreases from one step of a timer
\* callback to the next, whatever the nutrients of its square do; the
\* stage only disappears with the plant
StageNeverDecreases ==
    [][ \A c \in Cells :
          (HasPlant(c) /\ plant'[c].type # "undefined")
          => plant'[c].growthStage >= plant[c].growthStage ]_vars

\* a plant is held at its stage: its progress has reached the Flowering
\* tier, the nutrients of its square have not
StageHeldByNutrients ==
    \E c \in Cells :
        /\ HasPlant(c)
        /\ plant[c].maturityProgress >= THRESHOLDS.plantTier2Maturity
        /\ soil[c].bioavailableNutrition < THRESHOLDS.minNutrientsForFlowering
        /\ plant[c].growthStage = 1

----------------------------------------------------------------------------
(* Ollas: placed on a corner, the centre and an edge, refilled, with a     *)
(* plant on a square that is updated before two of them.                   *)

\* clicks and timer callbacks in a run of SpecOlla
MaxOllaClicks == 4
MaxOllaTicks == 2

OllaSites == { << 0, 0 >>, << 1, 1 >>, << 2, 1 >> }
OllaPlantCells == { << 1, 0 >> }
\* the pollinator walks up and down between two squares
BeePath == { << 2, 1 >>, << 2, 2 >> }

InitOlla == initializeGrid({}, << 2, 2 >>, CalmDraw)

NextOlla ==
    \/ \E c \in OllaSites : clicks < MaxOllaClicks /\ TryAddingStructure(c, "Olla", TRUE)
    \/ \E c \in OllaSites : clicks < MaxOllaClicks /\ AddWater(c)
    \/ \E c \in OllaPlantCells : clicks < MaxOllaClicks /\ TryPlanting(c, "Test")
    \/ game.tickCounter < MaxOllaTicks /\ TickBegin(72)
    \/ TickCell(QuietDraw)
    \/ \E nextBee \in BeePath : TickEnd(CalmDraw, nextBee)

SpecOlla == InitOlla /\ [][NextOlla]_vars

\* the step is a watering click on square c
AddWaterStep(c) ==
    /\ clicks' = clicks + 1
    /\ actionResult'.mode = "water"
    /\ actionResult'.key = c

\* the step is the update of square c in a timer callback, run to its end
CellStep(c) == tick.pc = CellIndex(c) /\ tick'.pc = tick.pc + 1

\* the step ends a timer callback, normally or with an error
TickEnds == tick.pc # 0 /\ tick'.pc = 0

\* the water level of an Olla changes by the release of its update and by
\* a refill, by nothing else, and stays in range
OllaLevelStep(c) ==
    LET level == structure[c].waterLevel
    IN  /\ structure'[c].waterLevel \in 0 .. THRESHOLDS.ollaMaxWater
        /\ structure'[c].waterLevel =
              IF AddWaterStep(c)
              THEN level + Min(4 * RATES.waterMoistureAdd, THRESHOLDS.ollaMaxWater - level)
              ELSE IF CellStep(c) THEN level - Min(RATES.ollaWaterRelease, level)
              ELSE level

\* C9: in each timer callback the water of an Olla decreases by exactly
\* min(release rate, stored water), a refill adds min(increment, capacity -
\* level), nothing else changes the level and it stays within [0, capacity]
OllaWaterExact ==
    [][ /\ \A c \in Cells :
              (structure[c].type = "Olla" /\ structure'[c].type = "Olla")
              => OllaLevelStep(c)
        /\ TickEnds =>
              \A c \in Cells :
                  (structure[c].type = "Olla" /\ structure[c].waterLevel > 0)
                  => CellIndex(c) < tick.pc ]_vars

\* what holds of C9: the level moves by the release of an update and by a
\* refill only, and stays in range
OllaWaterExactPerUpdate ==
    [][ \A c \in Cells :
          (structure[c].type = "Olla" /\ structure'[c].type = "Olla")
          => OllaLevelStep(c) ]_vars

----------------------------------------------------------------------------
(* The water an Olla hands out: one square is watered until it is nearly   *)
(* saturated, Ollas are placed around it, and the timer runs.              *)

\* clicks and timer callbacks in a run of SpecOllaShare
MaxShareClicks == 8
MaxShareTicks == 1

ShareWaterCells == { << 1, 0 >> }

NextOllaShare ==
    \/ \E c \in OllaSites : clicks < MaxShareClicks /\ TryAddingStructure(c, "Olla", TRUE)
    \/ \E c \in ShareWaterCells : clicks < MaxShareClicks /\ AddWater(c)
    \/ game.tickCounter < MaxShareTicks /\ TickBegin(72)
    \/ TickCell(QuietDraw)
    \/ \E nextBee \in BeePath : TickEnd(CalmDraw, nextBee)

SpecOllaShare == InitOlla /\ [][NextOllaShare]_vars

\* the squares an Olla on c waters
receivers(c) == neighbors1(c) \cup neighbors2(c)

RECURSIVE SumOver(_, _)
SumOver(f, S) ==
    IF S = {} THEN 0
    ELSE LET n == CHOOSE m \in S : TRUE
         IN  f[n] + SumOver(f, S \ { n })

\* the moisture each receiver of the Olla on c gains in the step
moistureGained(c) == [ n \in receivers(c) |-> soil'[n].moisture - soil[n].moisture ]

\* the shares are cut to 1/Scale: what the cuts can lose of one release
ShareRounding(c) == Cardinality(receivers(c)) + 2

\* C10 as stated: the moisture gained from an Olla, summed over its
\* receivers, equals what the Olla released in the tick (up to the
\* rounding of the shares), whatever the moisture of the receivers
GainedEqualsReleased ==
    [][ \A c \in Cells :
          (structure[c].type = "Olla" /\ CellStep(c))
          => LET released == structure[c].waterLevel - structure'[c].waterLevel
                 gained == SumOver(moistureGained(c), receivers(c))
             IN  /\ gained <= released
                 /\ gained >= released - ShareRounding(c) ]_vars

\* C10, amended: the moisture gained is never more than the release; it
\* equals the release (up to the rounding of the shares) when no receiver
\* ends the step at the maximum of 100, and a receiver never loses moisture
GainedEqualsReleasedUnlessSaturated ==
    [][ \A c \in Cells :
          (structure[c].type = "Olla" /\ CellStep(c))
          => LET released == structure[c].waterLevel - structure'[c].waterLevel
                 gained == SumOver(moistureGained(c), receivers(c))
             IN  /\ gained <= released
                 /\ \A n \in receivers(c) : moistureGained(c)[n] >= 0
                 /\ (\A n \in receivers(c) : soil'[n].moisture < 100 * Scale)
                    => gained >= released - ShareRounding(c) ]_vars

\* an Olla has just released water next to a square that it saturated
OllaSaturatedReceiver ==
    \E c \in Cells :
        /\ structure[c].type = "Olla"
        /\ tick.pc = CellIndex(c) + 1
        /\ structure[c].waterLevel < THRESHOLDS.ollaMaxWater
        /\ \E n \in receivers(c) : soil[n].moisture = 100 * Scale

----------------------------------------------------------------------------
(* Soil: one square is watered, amended, tilled and conditioned while the  *)
(* timer runs.                                                             *)

\* clicks and timer callbacks in a run of SpecSoil
MaxSoilClicks == 7
MaxSoilTicks == 1

SoilCells == { << 1, 1 >> }

NextSoil ==
    \/ \E c \in SoilCells : clicks < MaxSoilClicks /\ AddWater(c)
    \/ \E c \in SoilCells, type \in { "compost", "crh", "sand" } :
           clicks < MaxSoilClicks /\ AddAmendment(c, type)
    \/ \E c \in SoilCells : clicks < MaxSoilClicks /\ Till(c)
    \/ \E c \in SoilCells : clicks < MaxSoilClicks /\ ApplySoilConditioner(c)
    \/ game.tickCounter < MaxSoilTicks /\ TickBegin(72)
    \/ TickCell(QuietDraw)
    \/ \E nextBee \in BeePath : TickEnd(CalmDraw, nextBee)

SpecSoil == InitOlla /\ [][NextSoil]_vars

MaxPlaceClicks == 4
PlaceCells == { <<0, 0>>, <<1, 0>> }
PlaceSeeds == { "Corn", "Kale" }
PlaceStructures == { "Olla", "Trellis", "Scarecrow" }
PlaceAmendments == { "compost", "lime" }

NextPlace ==
    \/ \E c \in PlaceCells, t \in PlaceSeeds :
          clicks < MaxPlaceClicks /\ TryPlanting(c, t)
    \/ \E c \in PlaceCells, t \in PlaceStructures, a \in BOOLEAN :
          clicks < MaxPlaceClicks /\ TryAddingStructure(c, t, a)
    \/ \E c \in PlaceCells, t \in PlaceAmendments :
          clicks < MaxPlaceClicks /\ AddAmendment(c, t)
    \/ \E c \in PlaceCells : clicks < MaxPlaceClicks /\ RemoveEntity(c)

SpecPlace == InitOlla /\ [][NextPlace]_vars

\* a click of mode 'plant' or 'add_structure' on square c
PlacementStep(c) ==
    /\ clicks' = clicks + 1
    /\ actionResult'.mode \in { "plant", "add_structure" }
    /\ actionResult'.key = c

\* C11: no square ever holds a plant and a structure at once; planting a
\* seed or placing a structure on a square that holds a plant or a structure
\* fails and leaves that square and every other square as they were
ExclusiveOccupancy ==
    [][ /\ \A c \in Cells : ~(HasPlant(c) /\ HasStructure(c))'
        /\ \A c \in Cells :
              ( PlacementStep(c) /\ (HasPlant(c) \/ HasStructure(c)) )
              => ( /\ ~actionResult'.result
                   /\ UNCHANGED << soil, variables, plant, structure, weather, game >> ) ]_vars

PlacementOnOccupiedRefused ==
    /\ actionResult.mode = "plant"
    /\ ~actionResult.result
    /\ HasStructure(actionResult.key)
    /\ \E c \in Cells : HasPlant(c)

\* a click whose species, structure kind or amendment kind is not one the
\* configuration knows
UnknownKindStep ==
    /\ clicks' = clicks + 1
    /\ \/ actionResult'.mode = "plant" /\ actionResult'.type \notin PlantTypes
       \/ actionResult'.mode = "add_structure" /\ actionResult'.type \notin STRUCTURE_INFO
       \/ actionResult'.mode = "add_amendment"
             /\ actionResult'.type \notin { "compost", "crh", "sand" }

\* C12: planting an unknown species, placing an unknown structure kind and
\* adding an unknown amendment kind each fail and change no state
UnknownKindsRefused ==
    [][ UnknownKindStep
        => ( /\ ~actionResult'.result
             /\ UNCHANGED << soil, variables, plant, structure, weather, game >> ) ]_vars

(***************************************************************************)
(* The connection dialog: tryAddingStructure with confirm() as a step of   *)
(* its own.                                                                *)

MaxConfirmClicks == 3
MaxConfirmTicks == 1
ConfirmCells == { <<0, 0>>, <<1, 0>>, <<1, 1>> }

NextConfirm ==
    \/ \E c \in ConfirmCells, t \in { "Trellis", "Net" } :
          /\ clicks < MaxConfirmClicks
          /\ ~confirmNeeded(c, t)
          /\ TryAddingStructure(c, t, TRUE)
    \/ \E c \in ConfirmCells, t \in { "Trellis", "Net" } :
          clicks < MaxConfirmClicks /\ ConfirmOpens(c, t)
    \/ \E a \in BOOLEAN : ConfirmAnswered(a)
    \/ \E c \in ConfirmCells : clicks < MaxConfirmClicks /\ RemoveEntity(c)
    \/ game.tickCounter < MaxConfirmTicks /\ TickBegin(72)
    \/ TickCell(QuietDraw)
    \/ \E nextBee \in BeePath : TickEnd(CalmDraw, nextBee)

SpecConfirm == InitConn /\ [][NextConfirm]_vars

\* C13: when a Trellis or Net is placed next to a structure of its type,
\* nothing is placed and no connection flag changes as long as the question
\* whether to connect has no answer; the placement happens only with the
\* answer and follows it, never a default
NothingPlacedUntilAnswered ==
    [][ /\ confirmOpen'
          => ( /\ structure' = structure
               /\ structure[actionResult'.key] = NoStructure )
        /\ confirmOpen
          => ( /\ actionResult'.mode = "add_structure"
               /\ actionResult'.key = actionResult.key
               /\ actionResult'.asked
               /\ structure'[actionResult.key].type = actionResult.type
               /\ UNCHANGED << soil, variables, plant, weather, game, tick >>
               /\ ( \E dir \in Directions :
                       structure'[actionResult.key].connections[dir] )
                  <=> actionResult'.userConfirmed ) ]_vars

AwaitingAnswer ==
    /\ confirmOpen
    /\ game.tickCounter = 1
    /\ adjacentActiveNeighbors(actionResult.key, actionResult.type) # {}

\* a placement the player was asked about and declined to connect
DeclinedStep ==
    /\ clicks' = clicks + 1
    /\ actionResult'.mode = "add_structure"
    /\ actionResult'.asked
    /\ ~actionResult'.userConfirmed

\* C14: a Trellis or Net placed next to a structure of its type without the
\* player's confirmation stands alone: its four connection flags are false
\* and no flag of any neighbour changes
DeclinedPlacementStandsAlone ==
    [][ DeclinedStep
        => LET c == actionResult'.key
           IN  /\ structure'[c].type = actionResult'.type
               /\ \A dir \in Directions : ~structure'[c].connections[dir]
               /\ \A n \in Cells \ { c } : structure'[n] = structure[n] ]_vars

DeclinedNextToConnected ==
    /\ actionResult.mode = "add_structure"
    /\ actionResult.asked
    /\ ~actionResult.userConfirmed
    /\ structure[actionResult.key].type = actionResult.type
    /\ \E n \in adjacentActiveNeighbors(actionResult.key, actionResult.type) :
          \E dir \in Directions : structure[n].connections[dir]

(***************************************************************************)
(* Weeds: growth to level 4 and the spread with the wind.                  *)

MaxWeedClicks == 2
MaxWeedTicks == 4
WeedStart == { <<1, 1>> }
WeedOllaCells == { <<1, 0>> }
WeedPlantCells == { <<2, 1>> }
WeedDraws ==
    { QuietDraw, [ QuietDraw EXCEPT !.weedGrows = TRUE ] }
    \cup { [ QuietDraw EXCEPT !.weedSpreads = TRUE, !.spreadTo = n ] : n \in Cells }

InitWeed ==
    \E w \in WeedStart, d \in { "N", "E", "S", "W", "None" } :
        initializeGrid({ w }, <<2, 2>>, [ CalmDraw EXCEPT !.direction = d ])

NextWeed ==
    \/ \E c \in WeedOllaCells :
          clicks < MaxWeedClicks /\ TryAddingStructure(c, "Olla", TRUE)
    \/ \E c \in WeedPlantCells : clicks < MaxWeedClicks /\ TryPlanting(c, "Corn")
    \/ game.tickCounter < MaxWeedTicks /\ TickBegin(72)
    \/ \E draw \in WeedDraws : TickCell(draw)
    \/ \E nextBee \in BeePath : TickEnd(CalmDraw, nextBee)

SpecWeed == InitWeed /\ [][NextWeed]_vars

\* n lies in the half-plane the wind blows towards, seen from c
InDownwindHalfPlane(c, n, wind) ==
    /\ wind = "E" => n[1] < c[1]
    /\ wind = "W" => n[1] > c[1]
    /\ wind = "N" => n[2] > c[2]
    /\ wind = "S" => n[2] < c[2]

\* C15: in the update of a square the weed level of another square changes
\* only by a spread: the updated square has weeds of level 4, the other
\* square is one of its radius-1 neighbours, free of weeds, plant and
\* structure, lies downwind (E: smaller x, W: larger x, N: larger y,
\* S: smaller y, None: anywhere), gets level 1, and is the only one
WeedSpreadDownwind ==
    [][ \A c \in Cells :
          CellStep(c) =>
            \A n \in Cells \ { c } :
              variables'[n].weeds # variables[n].weeds
              => ( /\ variables[c].weeds = 4
                   /\ n \in getNeighbors(c[1], c[2], TRUE, 1)
                   /\ variables[n].weeds = 0
                   /\ ~HasPlant(n) /\ ~HasStructure(n)
                   /\ InDownwindHalfPlane(c, n, weather.currentWindDirection)
                   /\ variables'[n].weeds = 1
                   /\ \A m \in Cells \ { c, n } :
                         variables'[m].weeds = variables[m].weeds ) ]_vars

WeedHasSpreadWithTheWind ==
    /\ weather.currentWindDirection = "E"
    /\ variables[<<1, 1>>].weeds = 4
    /\ variables[<<0, 1>>].weeds = 1
    /\ tick.pc = CellIndex(<<1, 1>>) + 1

(***************************************************************************)
(* The order of the updates inside one timer callback.                     *)

\* the step runs Plant.update of the plant on square p, to its end or into
\* the error
PlantUpdateStep(p) ==
    /\ HasPlant(p)
    /\ tick.pc = CellIndex(p)
    /\ tick'.pc # tick.pc

\* C16: when the plant of a square is updated, every Olla that holds water
\* and has the square in its radius-1 or radius-2 ring has already released
\* its water of this timer callback into the soil of the square
OllaReleasesBeforePlantUpdate ==
    [][ \A p \in Cells :
          PlantUpdateStep(p) =>
            \A o \in Cells :
              ( /\ structure[o].type = "Olla"
                /\ structure[o].waterLevel > 0
                /\ p \in receivers(o) )
              => CellIndex(o) < CellIndex(p) ]_vars

(***************************************************************************)
(* The derived soil scores at the moment they are read.                    *)

\* the stored nutrition and soil-condition scores of s are the ones its
\* moisture, compaction, microbes, organic matter, nutrients and pH give
ScoresCurrent(s) ==
    /\ s.soilCondition = updateDerivedVariables(s).soilCondition
    /\ s.nutrition = updateDerivedVariables(s).nutrition

\* C17: when the update of a plant reads the soil-condition score of its
\* square, after the microbe and pH updates of the same timer callback, and
\* when a harvest reads it for the yield, the score is the one the current
\* soil values give
ScoresCurrentWhenRead ==
    [][ \A c \in Cells :
          /\ ( PlantUpdateStep(c) /\ plantUpdateThrows(c, tick.elapsedSimMinutes) )
             => ScoresCurrent(updateEnvironment(c))
          /\ ( HarvestStep(c) /\ actionResult'.harvest.harvested )
             => ScoresCurrent(soil[c]) ]_vars

(***************************************************************************)
(* A plant from the seed to its death of old age.                          *)

MaxSenescenceClicks == 2
MaxSenescenceTicks == 43
SenescenceCells == { <<0, 0>> }
SenescenceDraws == { QuietDraw, [ QuietDraw EXCEPT !.aphids = TRUE ] }

NextSenescence ==
    \/ \E c \in SenescenceCells :
          clicks < MaxSenescenceClicks /\ TryPlanting(c, "Basil")
    \/ game.tickCounter < MaxSenescenceTicks /\ TickBegin(120 * 1440)
    \/ \E draw \in SenescenceDraws : TickCell(draw)
    \/ \E nextBee \in BeePath : TickEnd(CalmDraw, nextBee)

SpecSenescence == InitOlla /\ [][NextSenescence]_vars

\* C18: every plant keeps size in [0,1], root and stem health in [0,100],
\* root density in [0.1,2.5], leaf density and stem development in
\* [0.05,1.0], maturity in [0,1], a growth stage in 0..4, and carbohydrate
\* and ATP reserves that are not negative
PlantInRange ==
    \A c \in Cells :
        HasPlant(c) =>
            LET p == plant[c]
            IN  /\ p.size \in 0 .. Micro
                /\ p.rootHealth \in 0 .. 100 * Scale
                /\ p.stemHealth \in 0 .. 100 * Scale
                /\ p.rootDensity \in Scale \div 10 .. (25 * Scale) \div 10
                /\ p.leafDensity \in (5 * Micro) \div 100 .. Micro
                /\ p.stemDevelopment \in (5 * Micro) \div 100 .. Micro
                /\ p.maturityProgress \in 0 .. Micro
                /\ p.growthStage \in 0 .. 4
                /\ p.CHO >= 0
                /\ p.ATP >= 0

WitheredPlant ==
    \E c \in Cells :
        /\ HasPlant(c)
        /\ plant[c].growthStage = 4
        /\ plant[c].maturityProgress = Micro
        /\ plant[c].size < (2 * Micro) \div 100
        /\ plant[c].rootHealth < 90 * Scale

\* C19: at the end of every timer callback no square holds a plant with
\* size <= 0, root health <= 0, or senescent with size < 0.01; such a plant
\* is taken away in the update of its square, whose pests are set to none
DeadPlantsRemoved ==
    [][ /\ tick'.pc = 0
          => \A c \in Cells :
                ~( /\ plant'[c].type # "undefined"
                   /\ \/ plant'[c].size <= 0
                      \/ plant'[c].rootHealth <= 0
                      \/ plant'[c].growthStage = 4 /\ plant'[c].size < Micro \div 100 )
        /\ \A c \in Cells :
              ( /\ CellStep(c)
                /\ HasPlant(c)
                /\ plant[c].growthStage = 4
                /\ plant[c].size - RATES.senescenceShrinkRate < Micro \div 100 )
              => ( /\ plant'[c] = NoPlant
                   /\ variables'[c].pests = NoPests ) ]_vars

DiedOfOldAgeWithPests ==
    /\ actionResult.mode = "plant"
    /\ ~HasPlant(actionResult.key)
    /\ variables[actionResult.key].pests = NoPests
    /\ tick.pc = CellIndex(actionResult.key) + 1
    /\ clicks = 1

(***************************************************************************)
(* Pests and weeds: spawning, levelling up, ladybeetles, Marigolds.        *)

MaxPestClicks == 7
MaxPestTicks == 10
PestPlantings == { << <<0, 0>>, "Marigold" >>, << <<0, 1>>, "Basil" >> }
PestWaterCells == { <<1, 0>> }

\* the weed grows whenever it can; at most one pest roll succeeds
WeedGrowsDraw == [ QuietDraw EXCEPT !.weedGrows = TRUE ]

PestDraws ==
    { WeedGrowsDraw,
      [ WeedGrowsDraw EXCEPT !.nematodes = TRUE ],
      [ WeedGrowsDraw EXCEPT !.aphids = TRUE ],
      [ WeedGrowsDraw EXCEPT !.levelUp = TRUE ],
      [ WeedGrowsDraw EXCEPT !.ladybeetles = TRUE ],
      [ WeedGrowsDraw EXCEPT !.suppressed = PestWaterCells ] }

InitPest == initializeGrid({ <<2, 2>> }, <<2, 2>>, CalmDraw)

\* the player sows the two seeds, waters the square next to the Marigold
\* and then lets the simulation run
NextPest ==
    \/ \E pl \in PestPlantings :
          clicks < MaxPestClicks /\ ~HasPlant(pl[1]) /\ TryPlanting(pl[1], pl[2])
    \/ \E c \in PestWaterCells :
          /\ clicks < MaxPestClicks
          /\ \A pl \in PestPlantings : HasPlant(pl[1])
          /\ AddWater(c)
    \/ /\ clicks = MaxPestClicks
       /\ game.tickCounter < MaxPestTicks
       /\ TickBegin(120 * 1440)
    \/ \E draw \in PestDraws : TickCell(draw)
    \/ \E nextBee \in BeePath : TickEnd(CalmDraw, nextBee)

SpecPest == InitPest /\ [][NextPest]_vars

\* C20: on every square the weed level is an integer in 0..4 and the pests
\* are none or Aphids or Nematodes of level 1..4: the type is null exactly
\* when the level is 0, also after ladybeetles or a Marigold lowered it
WeedsAndPestsWellFormed ==
    \A c \in Cells :
        /\ variables[c].weeds \in 0 .. 4
        /\ variables[c].pests.type \in { "null", "Aphids", "Nematodes" }
        /\ variables[c].pests.level \in 0 .. 4
        /\ variables[c].pests.type = "null" <=> variables[c].pests.level = 0

LadybeetlesAtWork ==
    /\ game.beneficialAttractionLevel >= THRESHOLDS.beneficialAttractionThreshold
    /\ \E c \in Cells : variables[c].pests.type = "Aphids" /\ variables[c].pests.level = 4
    /\ \E c \in Cells : variables[c].weeds = 4

----------------------------------------------------------------------------
(* plant.js: Plant.update from the photosynthesis on (steps 4 to 14), as a  *)
(* function of the light factor.  _calculateLightFactor itself throws, so  *)
(* the running program never gets here; the operators below are what the   *)
(* code computes once a light factor is at hand.  p is the plant, s the     *)
(* soil and v the variables of its square, st the structure of the square. *)
(* The light factor is in 1/Scale.                                         *)

\* H2O_Mod, BN_Mod and O2_Mod of the species in tenths, wetnessSensitivity
\* in tenths
PLANT_MODIFIERS ==
    [ Test     |-> [ H2O_Mod |-> 10, BN_Mod |-> 10, O2_Mod |-> 10, wetnessSensitivity |-> 10 ],
      Corn     |-> [ H2O_Mod |-> 60, BN_Mod |-> 50, O2_Mod |-> 20, wetnessSensitivity |-> 10 ],
      Beans    |-> [ H2O_Mod |-> 10, BN_Mod |-> 10, O2_Mod |-> 10, wetnessSensitivity |-> 10 ],
      Squash   |-> [ H2O_Mod |-> 10, BN_Mod |-> 10, O2_Mod |-> 10, wetnessSensitivity |-> 10 ],
      Tomato   |-> [ H2O_Mod |-> 12, BN_Mod |-> 18, O2_Mod |-> 10, wetnessSensitivity |-> 15 ],
      Basil    |-> [ H2O_Mod |-> 10, BN_Mod |-> 10, O2_Mod |-> 10, wetnessSensitivity |-> 10 ],
      Flower   |-> [ H2O_Mod |-> 15, BN_Mod |-> 15, O2_Mod |-> 10, wetnessSensitivity |-> 12 ],
      Marigold |-> [ H2O_Mod |-> 16, BN_Mod |-> 12, O2_Mod |-> 10, wetnessSensitivity |-> 10 ] ]

\* the factor, in 1/Scale, by which the temperature slows photosynthesis and
\* growth: the same four branches in _calculatePhotosynthesis and in
\* _calculatePotentialGrowth
plantTempEffect(temp) ==
    IF temp < THRESHOLDS.minTempPlantSlowdown THEN Scale \div 10
    ELSE IF temp > THRESHOLDS.maxTempPlantSlowdown
    THEN clamp(Scale - Frac(temp - THRESHOLDS.maxTempPlantSlowdown,
                            RATES.tempEffectOnGrowth[1], RATES.tempEffectOnGrowth[2]),
               Scale \div 10, Scale)
    ELSE IF temp < THRESHOLDS.optimalTempPlantLow
    THEN clamp(Scale - Frac(THRESHOLDS.optimalTempPlantLow - temp,
                            RATES.tempEffectOnGrowth[1], RATES.tempEffectOnGrowth[2]),
               Scale \div 10, Scale)
    ELSE IF temp > THRESHOLDS.optimalTempPlantHigh
    THEN clamp(Scale - Frac(temp - THRESHOLDS.optimalTempPlantHigh,
                            RATES.tempEffectOnGrowth[1], RATES.tempEffectOnGrowth[2]),
               Scale \div 10, Scale)
    ELSE Scale

\* (variant: the light factor is not looked at before the product is formed,
\* and a dark tick still yields the gain of the weakest light)
calculatePhotosynthesisAlways(p, s, v, lightFactor) ==
    IF p.size <= 0 THEN 0
    ELSE Max(0, Frac(p.leafDensity \div Scale, p.size, Scale) \div 100)

\* _calculatePhotosynthesis: the CHO gained this tick, in 1/Micro
calculatePhotosynthesis(p, s, v, lightFactor) ==
    IF lightFactor <= 0 \/ p.size <= 0 THEN 0
    ELSE LET healthFactor == clamp(p.rootHealth \div 100, (2 * Scale) \div 10, Scale)
             waterFactor == clamp((s.moisture * Scale)
                                     \div THRESHOLDS.moistureStressPhotosynthesis,
                                  Scale \div 10, Scale)
             photoTempFactor == plantTempEffect(v.temperature)
             tierFactor == Scale \div 2 + (p.growthStage * (Scale \div 2)) \div 3
             structureFactor == Frac(p.leafDensity \div Scale, p.size, Scale)
             choGained ==
                 Frac(Frac(Frac(Frac(Frac(Frac(structureFactor,
                      RATES.basePhotosynthesisRate[1], RATES.basePhotosynthesisRate[2]),
                      lightFactor, Scale), healthFactor, Scale), waterFactor, Scale),
                      photoTempFactor, Scale), tierFactor, Scale)
         IN  Max(0, choGained)

\* _applyMaintenanceRespiration: the plant after the base cost of living
applyMaintenanceRespiration(p, v) ==
    LET respTempFactor == clamp(v.temperature \div 25, Scale \div 2, 2 * Scale)
        maintenanceCHOCost ==
            Frac(Frac(p.size, RATES.baseRespirationRate[1], RATES.baseRespirationRate[2]),
                 respTempFactor, Scale)
        actualMaintenanceCHOConsumed == Min(p.CHO, maintenanceCHOCost)
    IN  [ p EXCEPT !.CHO = Max(0, p.CHO - actualMaintenanceCHOConsumed) ]

\* _consumeResources: the soil after the plant took water and nutrients, and
\* the oxygen consumed, which update returns
consumeResources(p, s, st) ==
    LET mods == PLANT_MODIFIERS[p.type]
        baseConsumption ==
            Frac(p.size, RATES.plantConsumption[1], RATES.plantConsumption[2]) \div Scale
        rootHealthFactor == clamp(p.rootHealth \div 100, 0, Scale)
        waterConsumed == Frac(baseConsumption, mods.H2O_Mod, 10)
        bnMod == IF st.type = "Trellis" /\ p.type \in { "Beans", "Squash", "Tomato" }
                 THEN Frac(mods.BN_Mod, 75, 100) ELSE mods.BN_Mod
        bnConsumed == Frac(Frac(Frac(baseConsumption, bnMod, 10), p.rootDensity, Scale),
                           rootHealthFactor, Scale)
        watered == addMoisture(s, 0 - waterConsumed)
    IN  [ soil |-> [ watered EXCEPT !.bioavailableNutrition = Max(0, @ - bnConsumed) ],
          oxygenConsumed |->
              Frac(Frac(baseConsumption, mods.O2_Mod, 10), p.rootDensity, Scale) ]

\* _updateHealthAndRecoveryDemand: the plant after the damage, and what the
\* method returns.  (soil.oxygen || 100) reads an oxygen of 0 as 100
updateHealthAndRecoveryDemand(p, s, v) ==
    LET isLowOxygen == OrDefault(s.oxygen, 100 * Scale) < THRESHOLDS.lowOxygenForRoots
        isWet == s.moisture >= THRESHOLDS.wet
        isTooHot == v.temperature > THRESHOLDS.maxTempRootDamage
        rootDamage ==
            (IF isLowOxygen THEN RATES.rootDamageLowOxygen ELSE 0)
            + (IF isWet
               THEN Frac(RATES.rootDamageWetness,
                         PLANT_MODIFIERS[p.type].wetnessSensitivity, 10)
               ELSE 0)
            + (IF isTooHot
               THEN Frac(v.temperature - THRESHOLDS.maxTempRootDamage,
                         RATES.rootDamageHighTempFactor[1],
                         RATES.rootDamageHighTempFactor[2])
               ELSE 0)
            + (IF v.pests.type = "Nematodes"
               THEN RATES.rootDamageNematodeFactor * v.pests.level ELSE 0)
        rootHealth == clamp(p.rootHealth - rootDamage, 0, 100 * Scale)
        needsRecovery == rootHealth < 100 * Scale
        conditionsAllowRecovery == ~isLowOxygen /\ ~isWet /\ ~isTooHot
    IN  [ plant |-> [ p EXCEPT !.rootHealth = rootHealth ],
          atpNeeded |-> IF needsRecovery /\ conditionsAllowRecovery
                        THEN RATES.rootRecoveryATPCost ELSE 0,
          canRecover |-> needsRecovery /\ conditionsAllowRecovery ]

\* _updateStemAndLeaf.  square.variables has no windSpeed, so the stem is
\* always the one of a calm day
updateStemAndLeaf(p, s, lightFactor) ==
    LET nutrientFactor == clamp((s.bioavailableNutrition * Scale)
                                   \div (THRESHOLDS.lowNutrientThreshold * 5),
                                (2 * Scale) \div 10, Scale)
        choFactor == clamp(p.CHO \div ((THRESHOLDS.lowCHOThreshold * 5) \div Scale),
                           (2 * Scale) \div 10, Scale)
        resourceFactor == Frac(nutrientFactor, choFactor, Scale)
        lightStem == IF lightFactor < (3 * Scale) \div 10
                     THEN Micro \div 4 ELSE (3 * Micro) \div 4
        targetStemDev == Frac(Frac(lightStem, 8, 10), resourceFactor, Scale)
        targetLeafDensity ==
            Frac(Frac(Micro \div 10 + (p.growthStage * 9 * (Micro \div 10)) \div 3,
                      resourceFactor, Scale),
                 clamp(lightFactor, Scale \div 2, Scale), Scale)
    IN  [ p EXCEPT
            !.stemDevelopment =
                clamp(@ + Frac(targetStemDev - @, RATES.stemDevRate[1], RATES.stemDevRate[2]),
                      (5 * Micro) \div 100, Micro),
            !.leafDensity =
                clamp(@ + Frac(targetLeafDensity - @, RATES.leafDevRate[1], RATES.leafDevRate[2]),
                      (5 * Micro) \div 100, Micro) ]

\* _calculatePotentialGrowth: what it returns; sizes and ATP in 1/Micro
calculatePotentialGrowth(p, s, v, st, elapsedSimMinutes, lightFactor) ==
    LET canGrowBase == /\ s.soilCondition > THRESHOLDS.soilConditionGrow
                       /\ s.moisture >= THRESHOLDS.moistureShrink
        isShrinking == s.moisture < THRESHOLDS.moistureShrink
        overallHealthFactor ==
            clamp((OrDefault(p.stemHealth, 100 * Scale) + p.rootHealth
                   + p.leafDensity \div 10) \div 300, Scale \div 10, Scale)
        plainEffect == plantTempEffect(v.temperature)
        growthTempFactor ==
            IF st.type = "Net" /\ v.temperature > THRESHOLDS.optimalTempPlantHigh
            THEN Scale - Frac(Scale - plainEffect, 4, 10)
            ELSE plainEffect
        daysToHarvestable == OrDefault(PLANT_PROPERTIES[p.type].daysToHarvestableStage, 60)
        dailyProgressRate == THRESHOLDS.plantTier3Maturity \div daysToHarvestable
        conditionFactor ==
            clamp((s.soilCondition * Scale) \div THRESHOLDS.soilConditionGrow,
                  Scale \div 10, (12 * Scale) \div 10)
        potentialGrowthRate ==
            Frac(Frac(Frac(dailyProgressRate, 25, 10), conditionFactor, Scale),
                 overallHealthFactor, Scale)
        perDay == Frac(Frac(potentialGrowthRate, growthTempFactor, Scale),
                       2 + p.growthStage, 2)
        grows == /\ canGrowBase
                 /\ growthTempFactor > Scale \div 10
                 /\ lightFactor > Scale \div 10
                 /\ ~isShrinking
        potentialSizeChange ==
            IF grows
            THEN Max(0, perDay * (elapsedSimMinutes \div 1440)
                        + (perDay * (elapsedSimMinutes % 1440)) \div 1440)
            ELSE 0
        cost == Frac(potentialSizeChange, RATES.growthATPCost[1], RATES.growthATPCost[2])
        plainStatus ==
            IF v.temperature < THRESHOLDS.minTempPlantSlowdown THEN "too cold"
            ELSE IF v.temperature > THRESHOLDS.maxTempPlantSlowdown THEN "too hot!"
            ELSE IF v.temperature < THRESHOLDS.optimalTempPlantLow THEN "cool"
            ELSE IF v.temperature > THRESHOLDS.optimalTempPlantHigh THEN "warm"
            ELSE "optimal temp"
        tempStatus ==
            IF st.type = "Net" /\ v.temperature > THRESHOLDS.optimalTempPlantHigh
            THEN IF plainStatus = "too hot!" THEN "hot! (Net)" ELSE "warm (Net)"
            ELSE plainStatus
    IN  [ potentialSizeChange |-> potentialSizeChange,
          atpNeeded |-> Max(0, cost + (cost * (p.size \div Scale)) \div Scale),
          isShrinking |-> isShrinking,
          tempFactor |-> growthTempFactor,
          lightFactor |-> lightFactor,
          baseConditionStatus |-> tempStatus ]

\* _generateATP: CHO is respired for the ATP demanded; demand / 30 * 30 is
\* taken as the demand
generateATP(p, totalATPDemand) ==
    LET demand == Max(0, totalATPDemand)
        availableCHOForATP == Max(0, p.CHO)
        enough == demand <= availableCHOForATP * RATES.respirationCHOToATPConversion
        choToConsumeForATP ==
            IF enough
            THEN (demand + RATES.respirationCHOToATPConversion - 1)
                     \div RATES.respirationCHOToATPConversion
            ELSE availableCHOForATP
        atpGenerated == IF enough THEN demand
                        ELSE availableCHOForATP * RATES.respirationCHOToATPConversion
    IN  [ p EXCEPT !.CHO = Max(0, p.CHO - choToConsumeForATP),
                   !.ATP = p.ATP + atpGenerated ]

\* (variant: growth is applied whether or not the ATP covers its cost)
applyGrowthAndRecoveryCostsOnCredit(p, v, growthInfo, recoveryInfo, currentStatus) ==
    LET recovers == recoveryInfo.canRecover /\ p.ATP >= recoveryInfo.atpNeeded
        afterRecovery ==
            IF recovers
            THEN [ p EXCEPT !.rootHealth = clamp(@ + RATES.rootRecoveryRate, 0, 100 * Scale),
                            !.ATP = @ - recoveryInfo.atpNeeded ]
            ELSE p
        s1 == IF recoveryInfo.canRecover /\ ~recovers
                 /\ currentStatus \notin { "shrinking", "low ATP", "Aphids!", "Nematodes!",
                                           "senescent", "too hot!", "too cold", "dark",
                                           "low light" }
              THEN "low ATP (root)" ELSE currentStatus
        shrinkRate ==
            RATES.plantShrink
            + (IF v.pests.type = "Nematodes"
               THEN RATES.pestNematodeShrinkAdd * v.pests.level ELSE 0)
            + (IF v.pests.type = "Aphids"
               THEN (RATES.plantShrink \div 2) * v.pests.level ELSE 0)
        mayGrow == ~growthInfo.isShrinking /\ growthInfo.potentialSizeChange > 0
        affordsGrowth == TRUE
        sizeChange == IF growthInfo.isShrinking THEN 0 - shrinkRate
                      ELSE IF mayGrow /\ affordsGrowth THEN growthInfo.potentialSizeChange
                      ELSE 0
        grown == IF mayGrow /\ affordsGrowth
                 THEN [ afterRecovery EXCEPT !.ATP = @ - growthInfo.atpNeeded ]
                 ELSE afterRecovery
        s2 == IF growthInfo.isShrinking
              THEN IF s1 \notin { "Aphids!", "Nematodes!", "too hot!" }
                   THEN "shrinking" ELSE s1
              ELSE IF mayGrow
              THEN IF affordsGrowth
                   THEN IF s1 \notin { "shrinking", "Aphids!", "Nematodes!", "hot! (Net)",
                                       "warm (Net)" }
                        THEN "growing" ELSE s1
                   ELSE IF s1 \notin { "shrinking", "low ATP (root)", "Aphids!", "Nematodes!",
                                       "senescent", "too hot!", "too cold", "dark",
                                       "low light" }
                        THEN "low ATP" ELSE s1
              ELSE s1
    IN  [ plant |-> [ grown EXCEPT !.size = clamp(@ + sizeChange, 0, THRESHOLDS.plantMaxSize) ],
          recovered |-> recovers,
          status |-> IF v.pests.type = "Aphids" THEN "Aphids!"
                     ELSE IF v.pests.type = "Nematodes" /\ s2 # "shrinking"
                     THEN "Nematodes!"
                     ELSE s2 ]

\* _applyGrowthAndRecoveryCosts: the plant after recovery and growth or
\* shrinking have been applied, and the status the method returns
applyGrowthAndRecoveryCosts(p, v, growthInfo, recoveryInfo, currentStatus) ==
    LET recovers == recoveryInfo.canRecover /\ p.ATP >= recoveryInfo.atpNeeded
        afterRecovery ==
            IF recovers
            THEN [ p EXCEPT !.rootHealth = clamp(@ + RATES.rootRecoveryRate, 0, 100 * Scale),
                            !.ATP = @ - recoveryInfo.atpNeeded ]
            ELSE p
        s1 == IF recoveryInfo.canRecover /\ ~recovers
                 /\ currentStatus \notin { "shrinking", "low ATP", "Aphids!", "Nematodes!",
                                           "senescent", "too hot!", "too cold", "dark",
                                           "low light" }
              THEN "low ATP (root)" ELSE currentStatus
        shrinkRate ==
            RATES.plantShrink
            + (IF v.pests.type = "Nematodes"
               THEN RATES.pestNematodeShrinkAdd * v.pests.level ELSE 0)
            + (IF v.pests.type = "Aphids"
               THEN (RATES.plantShrink \div 2) * v.pests.level ELSE 0)
        mayGrow == ~growthInfo.isShrinking /\ growthInfo.potentialSizeChange > 0
        affordsGrowth == afterRecovery.ATP >= growthInfo.atpNeeded
        sizeChange == IF growthInfo.isShrinking THEN 0 - shrinkRate
                      ELSE IF mayGrow /\ affordsGrowth THEN growthInfo.potentialSizeChange
                      ELSE 0
        grown == IF mayGrow /\ affordsGrowth
                 THEN [ afterRecovery EXCEPT !.ATP = @ - growthInfo.atpNeeded ]
                 ELSE afterRecovery
        s2 == IF growthInfo.isShrinking
              THEN IF s1 \notin { "Aphids!", "Nematodes!", "too hot!" }
                   THEN "shrinking" ELSE s1
              ELSE IF mayGrow
              THEN IF affordsGrowth
                   THEN IF s1 \notin { "shrinking", "Aphids!", "Nematodes!", "hot! (Net)",
                                       "warm (Net)" }
                        THEN "growing" ELSE s1
                   ELSE IF s1 \notin { "shrinking", "low ATP (root)", "Aphids!", "Nematodes!",
                                       "senescent", "too hot!", "too cold", "dark",
                                       "low light" }
                        THEN "low ATP" ELSE s1
              ELSE s1
    IN  [ plant |-> [ grown EXCEPT !.size = clamp(@ + sizeChange, 0, THRESHOLDS.plantMaxSize) ],
          recovered |-> recovers,
          status |-> IF v.pests.type = "Aphids" THEN "Aphids!"
                     ELSE IF v.pests.type = "Nematodes" /\ s2 # "shrinking"
                     THEN "Nematodes!"
                     ELSE s2 ]

\* _updateRootDensity, with the temperature factor of the growth
updateRootDensity(p, s, growthTempFactor) ==
    IF p.size <= 0 THEN p
    ELSE LET nutrientFactor == clamp(s.bioavailableNutrition \div 50,
                                     (2 * Scale) \div 10, (15 * Scale) \div 10)
             oxygenFactor == clamp(s.oxygen \div 80, (2 * Scale) \div 10, (12 * Scale) \div 10)
             compactionFactor == clamp((100 * Scale - OrDefault(s.compaction, 50 * Scale))
                                          \div 60, Scale \div 10, Scale)
             rootDensityDelta ==
                 Frac(Frac(Frac(Frac(Frac(p.size, RATES.rootDensityGrowthBase[1],
                                          RATES.rootDensityGrowthBase[2]),
                      nutrientFactor, Scale), oxygenFactor, Scale),
                      compactionFactor, Scale), OrDefault(growthTempFactor, Scale), Scale)
                 \div Scale
         IN  [ p EXCEPT !.rootDensity = clamp(@ + rootDensityDelta,
                                              THRESHOLDS.minRootDensity,
                                              THRESHOLDS.maxRootDensity) ]

\* _finalizeStatus: the status it returns for the plant p
finalizeStatus(p, currentStatus, growthInfo, recoveryInfo) ==
    LET maxPotentialATPCost == Max(growthInfo.atpNeeded, recoveryInfo.atpNeeded)
        s1 == IF /\ p.ATP < maxPotentialATPCost
                 /\ maxPotentialATPCost > 0
                 /\ currentStatus \notin { "shrinking", "Aphids!", "Nematodes!", "senescent",
                                           "low CHO", "dark", "low light", "too cold",
                                           "too hot!", "low ATP (root)" }
              THEN "low ATP" ELSE currentStatus
    IN  IF /\ p.CHO < THRESHOLDS.lowCHOThreshold
           /\ s1 \notin { "low ATP", "low ATP (root)", "Aphids!", "Nematodes!", "senescent" }
        THEN "low CHO" ELSE s1

\* (variant: a finished plant still draws on the soil)
plantUpdateNoShortCircuit(p, s, v, st, elapsedSimMinutes, lightFactor) ==
    LET aged == updateAge(p, elapsedSimMinutes)
        declined == handleSenescence(aged)
        used == consumeResources(declined, s, st)
    IN  [ plant |-> declined, soil |-> used.soil, status |-> "senescent",
          oxygenConsumed |-> used.oxygenConsumed, choGained |-> 0,
          canRecover |-> FALSE, recovered |-> FALSE, recoveryCost |-> 0, growthCost |-> 0,
          lowOxygen |-> FALSE, healthAtHealthStep |-> declined.rootHealth,
          healthAfterDamage |-> declined.rootHealth, atpAtRecovery |-> declined.ATP,
          choAtStem |-> declined.CHO,
          shortCircuit |-> senescentOrDead(aged) ]

\* Plant.update: the plant and the soil it leaves behind, the status and the
\* oxygen consumption it returns, and the values of its locals.  The steps
\* 3 to 12 run one after the other; each set below holds the one record of
\* the locals after its step
plantUpdate(p, s, v, st, elapsedSimMinutes, lightFactor) ==
    LET aged == updateAge(p, elapsedSimMinutes)
        declined == handleSenescence(aged)
        step3 == { [ matured |-> updateMaturityAndStage(aged, elapsedSimMinutes, s) ] }
        step4 == { x @@ [ choGained |->
                            calculatePhotosynthesis(x.matured, s, v, lightFactor) ]
                   : x \in step3 }
        step5 == { x @@ [ respired |->
                            applyMaintenanceRespiration(
                                [ x.matured EXCEPT !.CHO = @ + x.choGained ], v) ]
                   : x \in step4 }
        step6 == { x @@ [ used |-> consumeResources(x.respired, s, st) ] : x \in step5 }
        step7 == { x @@ [ recoveryInfo |->
                            updateHealthAndRecoveryDemand(x.respired, x.used.soil, v) ]
                   : x \in step6 }
        step8 == { x @@ [ leafed |->
                            updateStemAndLeaf(x.recoveryInfo.plant, x.used.soil, lightFactor) ]
                   : x \in step7 }
        step9 == { x @@ [ growthInfo |->
                            calculatePotentialGrowth(x.leafed, x.used.soil, v, st,
                                                     elapsedSimMinutes, lightFactor) ]
                   : x \in step8 }
        step10 == { x @@ [ charged |->
                             generateATP(x.leafed,
                                         x.growthInfo.atpNeeded + x.recoveryInfo.atpNeeded) ]
                    : x \in step9 }
        step11 == { x @@ [ applied |->
                             applyGrowthAndRecoveryCosts(x.charged, v, x.growthInfo,
                                                         x.recoveryInfo,
                                                         x.growthInfo.baseConditionStatus) ]
                    : x \in step10 }
        step12 == { x @@ [ rooted |->
                             updateRootDensity(x.applied.plant, x.used.soil,
                                               x.growthInfo.tempFactor) ]
                    : x \in step11 }
    IN  IF senescentOrDead(aged)
        THEN [ plant |-> declined,
               soil |-> s,
               status |-> IF declined.size <= 0 \/ declined.rootHealth <= 0
                          THEN "dead" ELSE "senescent",
               oxygenConsumed |-> 0,
               choGained |-> 0,
               canRecover |-> FALSE, recovered |-> FALSE,
               recoveryCost |-> 0, growthCost |-> 0, lowOxygen |-> FALSE,
               healthAtHealthStep |-> declined.rootHealth,
               healthAfterDamage |-> declined.rootHealth,
               atpAtRecovery |-> declined.ATP,
               choAtStem |-> declined.CHO,
               shortCircuit |-> TRUE ]
        ELSE CHOOSE result \in
               { [ plant |-> [ x.rooted EXCEPT !.CHO = Max(0, @), !.ATP = Max(0, @) ],
                   soil |-> x.used.soil,
                   status |-> finalizeStatus(x.rooted, x.applied.status, x.growthInfo,
                                             x.recoveryInfo),
                   oxygenConsumed |-> x.used.oxygenConsumed,
                   choGained |-> x.choGained,
                   canRecover |-> x.recoveryInfo.canRecover,
                   recovered |-> x.applied.recovered,
                   recoveryCost |-> x.recoveryInfo.atpNeeded,
                   growthCost |-> x.growthInfo.atpNeeded,
                   lowOxygen |-> x.used.soil.oxygen < THRESHOLDS.lowOxygenForRoots,
                   healthAtHealthStep |-> x.respired.rootHealth,
                   healthAfterDamage |-> x.recoveryInfo.plant.rootHealth,
                   atpAtRecovery |-> x.charged.ATP,
                   choAtStem |-> x.recoveryInfo.plant.CHO,
                   shortCircuit |-> FALSE ] : x \in step12 } : TRUE

----------------------------------------------------------------------------
(* Plant.update as a function: one square holds a plant, its soil,          *)
(* temperature and pests are drawn from the cases the code distinguishes,  *)
(* and each step applies Plant.update for one light factor.                *)

MaxPlantUpdates == 2

InitUpdate ==
    LET cell == << 0, 0 >>
        species == { "Test", "Corn" }
        \* newly planted; exhausted, with damaged roots; exhausted, with weak
        \* roots; fruiting and fully mature; for an annual, senescent with its
        \* roots at their end
        plants(type) ==
            { NewPlant(type),
              [ NewPlant(type) EXCEPT !.CHO = 0, !.ATP = 0, !.rootHealth = 90 * Scale ],
              [ NewPlant(type) EXCEPT !.CHO = 0, !.ATP = 0, !.rootHealth = 30 * Scale ],
              [ NewPlant(type) EXCEPT !.growthStage = 3, !.maturityProgress = Micro,
                                      !.size = Micro \div 2, !.rootHealth = 90 * Scale ] }
            \cup IF PLANT_PROPERTIES[type].isPerennial THEN {}
                 ELSE { [ NewPlant(type) EXCEPT !.growthStage = 4, !.maturityProgress = Micro,
                                                !.size = (3 * Micro) \div 10,
                                                !.rootHealth = Scale \div 2 ] }
        wet == NewSoil(85 * Scale, 50 * Scale, 50 * Scale, 10 * Scale, 10 * Scale, 7 * Scale)
        \* dry, the default, waterlogged, conditioned, and one with the oxygen
        \* at the lower end of the range updateOxygen clamps to
        soils ==
            { NewSoil(10 * Scale, 50 * Scale, 50 * Scale, 10 * Scale, 10 * Scale, 7 * Scale),
              SoilDEFAULTS,
              wet,
              NewSoil(70 * Scale, 30 * Scale, 80 * Scale, 20 * Scale, 80 * Scale,
                      (65 * Scale) \div 10),
              [ wet EXCEPT !.oxygen = 0, !.moisture = 70 * Scale ] }
        temperatures == { 3 * Scale, 20 * Scale, 40 * Scale }
        pestCases == { NoPests, [ type |-> "Aphids", level |-> 1 ],
                       [ type |-> "Nematodes", level |-> 1 ] }
        climateProps == CLIMATE_PROPERTIES["Temperate"]
        ambient == (climateProps.tempRange[1] + climateProps.tempRange[2]) \div 2
        w0 == [ currentClimate |-> "Temperate",
                ambientTemperature |-> ambient,
                currentHumidity |-> climateProps.humidityAvg,
                currentWindSpeed |-> 0,
                currentWindDirection |-> "None",
                isPollinated |-> FALSE,
                simulatedTimeOfDay |-> 6 * 60,
                simulatedDaysElapsed |-> 0,
                lastWindChangeDay |-> -1 ]
        g0 == [ tickCounter |-> 0,
                harvestData |-> [ t \in PlantTypes |-> 0 ],
                beneficialAttractionLevel |-> 0,
                playerMoney |-> 150,
                beePosition |-> << 2, 2 >>,
                simulationSpeed |-> 1,
                isPaused |-> FALSE,
                mainIntervalId |-> 1,
                activeIntervals |-> { 1 } ]
        \* no wind, and the strongest wind of the climate
        winds == { 0, climateProps.windSpeedRange[2] }
    IN  \E type \in species, s \in soils, temperature \in temperatures, pests \in pestCases :
          \E p \in plants(type), wind \in winds :
            /\ soil = [ c \in Cells |-> IF c = cell THEN s ELSE SoilDEFAULTS ]
            /\ variables = [ c \in Cells |->
                               [ temperature |-> IF c = cell THEN temperature ELSE ambient,
                                 weeds |-> 0,
                                 pests |-> IF c = cell THEN pests ELSE NoPests ] ]
            /\ plant = [ c \in Cells |-> IF c = cell THEN p ELSE NoPlant ]
            /\ structure = [ c \in Cells |-> NoStructure ]
            /\ weather = updateWeather(w0, g0, 0, 0, [ CalmDraw EXCEPT !.windSpeed = wind ])
            /\ game = g0
            /\ tick = IdleTick
            /\ actionResult = [ mode |-> "none" ]
            /\ clicks = 0

\* plant.update(square, elapsedSimMinutes) on square c after one timer
\* period, with lightFactor for what _calculateLightFactor returns
PlantUpdate(c, lightFactor) ==
    /\ HasPlant(c)
    /\ \E r \in { plantUpdate(plant[c], soil[c], variables[c], structure[c], 72,
                             lightFactor) } :
           /\ plant' = [ plant EXCEPT ![c] = r.plant ]
           /\ soil' = [ soil EXCEPT ![c] = r.soil ]
           /\ actionResult' = [ mode |-> "update", key |-> c, lightFactor |-> lightFactor,
                                status |-> r.status,
                                oxygenConsumed |-> r.oxygenConsumed,
                                choGained |-> r.choGained,
                                shortCircuit |-> r.shortCircuit,
                                canRecover |-> r.canRecover,
                                recovered |-> r.recovered,
                                recoveryCost |-> r.recoveryCost,
                                growthCost |-> r.growthCost,
                                lowOxygen |-> r.lowOxygen,
                                healthAtHealthStep |-> r.healthAtHealthStep,
                                healthAfterDamage |-> r.healthAfterDamage,
                                atpAtRecovery |-> r.atpAtRecovery,
                                choAtStem |-> r.choAtStem ]
    /\ UNCHANGED << variables, structure, weather, game, tick, clicks >>

\* the light factor at night, at dusk and at noon
NextUpdate ==
    \E c \in Cells, lightFactor \in { 0, (15 * Scale) \div 100, Scale } :
        /\ plant[c].type # "undefined"
        /\ plant[c].ageTicks < MaxPlantUpdates
        /\ PlantUpdate(c, lightFactor)

SpecUpdate == InitUpdate /\ [][NextUpdate]_vars

\* a step is a call of Plant.update on square c
UpdateStep(c) ==
    /\ plant[c].type # "undefined"
    /\ actionResult'.mode = "update"
    /\ actionResult'.key = c
    /\ plant'[c].ageTicks = plant[c].ageTicks + 1

\* C22: an update with light factor 0 gains no CHO from photosynthesis, and
\* the CHO of the plant is not higher after the update than before it
NoGainInTheDark ==
    [][ \A c \in Cells :
          ( UpdateStep(c) /\ actionResult'.lightFactor = 0 )
          => /\ actionResult'.choGained = 0
             /\ plant'[c].CHO <= plant[c].CHO ]_vars

\* a living plant has been updated in the dark and has CHO left
UpdatedInTheDark ==
    /\ actionResult.mode = "update"
    /\ actionResult.lightFactor = 0
    /\ ~actionResult.shortCircuit
    /\ plant[actionResult.key].size > 0
    /\ plant[actionResult.key].CHO > 0

MaxDeclineClicks == 2
MaxDeclineTicks == 46
\* the timer callback up to which the user plants
LastPlantingTick == 2
DeclineAnnualCell == << 1, 0 >>
DeclinePerennialCell == << 0, 0 >>

NextDecline ==
    \/ /\ clicks < MaxDeclineClicks
       /\ game.tickCounter <= LastPlantingTick
       /\ TryPlanting(DeclineAnnualCell, "Basil")
    \/ /\ clicks < MaxDeclineClicks
       /\ game.tickCounter <= LastPlantingTick
       /\ TryPlanting(DeclinePerennialCell, "Test")
    \/ game.tickCounter < MaxDeclineTicks /\ TickBegin(120 * 1440)
    \/ TickCell(QuietDraw)
    \/ \E nextBee \in BeePath : TickEnd(CalmDraw, nextBee)

\* setInterval fires the callback again and again, whatever the callback
\* before it did, and a callback that has begun runs on until it returns or
\* throws.  The update of the square at tick.pc is possible whenever tick.pc
\* is in 1 .. NumCells and always moves tick.pc, so its weak fairness is
\* that the callback does not stay inside the grid for ever
SpecDecline ==
    /\ InitOlla
    /\ [][NextDecline]_vars
    /\ WF_vars(game.tickCounter < MaxDeclineTicks /\ TickBegin(120 * 1440))
    /\ []<>(tick.pc \notin 1 .. NumCells)
    /\ WF_vars(\E nextBee \in BeePath : TickEnd(CalmDraw, nextBee))

FinishedPlantShortCircuits ==
    [][ \A c \in Cells :
          LET p == plant[c]
              q == plant'[c]
              finished == \/ p.growthStage = 4
                          \/ /\ ~PLANT_PROPERTIES[p.type].isPerennial
                             /\ p.growthStage = 3
                             /\ p.maturityProgress >= Micro
                          \/ p.size <= 0
                          \/ p.rootHealth <= 0
          IN  ( UpdateStep(c) /\ finished )
              => /\ actionResult'.oxygenConsumed = 0
                 /\ actionResult'.status
                       = (IF q.size <= 0 \/ q.rootHealth <= 0 THEN "dead" ELSE "senescent")
                 /\ soil'[c].moisture = soil[c].moisture
                 /\ soil'[c].bioavailableNutrition = soil[c].bioavailableNutrition
                 /\ q.maturityProgress = p.maturityProgress
                 /\ q.leafDensity = p.leafDensity
                 /\ q.stemDevelopment = p.stemDevelopment
                 /\ q.rootDensity = p.rootDensity
                 /\ q.CHO <= p.CHO
                 /\ q.ATP <= p.ATP
                 /\ q.size <= p.size
                 /\ q.rootHealth <= p.rootHealth ]_vars

\* a fruiting annual has turned senescent in an update at full light
TurnedSenescentInTheLight ==
    /\ actionResult.mode = "update"
    /\ actionResult.status = "senescent"
    /\ actionResult.lightFactor = Scale
    /\ plant[actionResult.key].ageTicks = 1
    /\ plant[actionResult.key].growthStage = 4
    /\ plant[actionResult.key].size > (4 * Micro) \div 10

\* C21: after the update of a square in a timer callback, a square without
\* a plant has no pests, whether it never held a plant or lost it
NoPestsWithoutHost ==
    [][ \A c \in Cells :
          ( CellStep(c) /\ plant'[c] = NoPlant )
          => variables'[c].pests = NoPests ]_vars
(***************************************************************************)
(* The phases of one timer callback.                                       *)

\* C24: the phases run grid-wide: when the entities, weeds and pests of a
\* square are updated, the environment of every square has already been
\* updated in this callback; and the global phase (weather, pollinator,
\* attraction) runs after the update of the last square
PhasesRunGridWide ==
    [][ /\ \A c \in Cells :
             ( tick.pc = CellIndex(c) /\ tick'.pc # tick.pc )
             => \A n \in Cells \ { c } : CellIndex(n) < tick.pc
        /\ tick'.outcome = "completed" => tick.pc = NumCells + 1 ]_vars

(***************************************************************************)
(* The order in which a timer callback visits the squares.                 *)

\* the environment update of square c has dried its soil in this step
Visited(c) == soil'[c].moisture < soil[c].moisture

\* C25: a timer callback visits the squares row by row, x running inside y,
\* and the update of a square works on the soil as it is at that moment,
\* with what earlier squares did to it in the same callback, not on a copy
\* taken at the start
RowMajorWithoutSnapshot ==
    [][ /\ \A c \in Cells :
             Visited(c)
             => /\ tick.pc \in 1 .. NumCells
                /\ c = << (tick.pc - 1) % GRID_COLS, (tick.pc - 1) \div GRID_COLS >>
                /\ soil'[c].moisture = updateEnvironment(c).moisture
        /\ ( tick.pc \in 1 .. NumCells /\ tick'.pc # tick.pc )
           => \E c \in Cells : Visited(c) ]_vars

\* in the first callback the square 2,2, which no click waters, has been
\* updated after the Olla on 1,1 released into it, and is wetter than at
\* the start in spite of its evaporation
LaterSquareSawOllaWater ==
    /\ game.tickCounter = 1
    /\ structure[<< 1, 1 >>].type = "Olla"
    /\ tick.pc = CellIndex(<< 2, 2 >>) + 1
    /\ soil[<< 2, 2 >>].moisture > SoilDEFAULTS.moisture

(***************************************************************************)
(* Senescence.                                                             *)

\* C26: a plant enters stage 4 only from stage 3 with full maturity and
\* only if it is not perennial; a perennial never is at stage 4; a plant at
\* stage 4 stays there as long as it is on its square
SenescenceOnlyAfterFruiting ==
    [][ \A c \in Cells :
          ( HasPlant(c) /\ plant'[c].type # "undefined" )
          => /\ ( plant[c].growthStage # 4 /\ plant'[c].growthStage = 4 )
                => /\ ~PLANT_PROPERTIES[plant[c].type].isPerennial
                   /\ plant[c].growthStage = 3
                   /\ plant[c].maturityProgress >= Micro
             /\ PLANT_PROPERTIES[plant[c].type].isPerennial => plant'[c].growthStage # 4
             /\ plant[c].growthStage = 4 => plant'[c].growthStage = 4 ]_vars

\* an annual has turned senescent and has been updated again since
SenescentAnnual ==
    \E c \in Cells :
        /\ HasPlant(c)
        /\ plant[c].growthStage = 4
        /\ plant[c].rootHealth <= 99 * Scale
        /\ ~PLANT_PROPERTIES[plant[c].type].isPerennial

GrowthPaidInATP ==
    [][ \A c \in Cells :
          ( UpdateStep(c) /\ ~actionResult'.shortCircuit )
          => LET r == actionResult'
                 atpLeft == r.atpAtRecovery - (IF r.recovered THEN r.recoveryCost ELSE 0)
             IN  /\ plant'[c].size > plant[c].size
                    => /\ soil'[c].moisture >= THRESHOLDS.moistureShrink
                       /\ atpLeft >= r.growthCost
                       /\ plant'[c].ATP = atpLeft - r.growthCost
                 /\ soil'[c].moisture < THRESHOLDS.moistureShrink
                    => /\ plant'[c].size < plant[c].size
                       /\ plant'[c].ATP = atpLeft
                 /\ atpLeft >= 0
                 /\ plant'[c].ATP >= 0 ]_vars

\* a plant has grown in an update and has paid for it
GrownAndPaid ==
    /\ actionResult.mode = "update"
    /\ actionResult.status = "growing"
    /\ actionResult.growthCost > 0
    /\ plant[actionResult.key].ageTicks = 2
    /\ plant[actionResult.key].size > NewPlant(plant[actionResult.key].type).size

----------------------------------------------------------------------------
(* soil.js: applyEvaporation and updateMicrobes as functions.  One square   *)
(* holds a soil, the temperature, the humidity and the wind are drawn from  *)
(* the cases the code distinguishes, and each step applies one of the two.  *)

\* calls of the two methods in a run; clicks counts them
MaxSoilSteps == 2

InitSoilStep ==
    LET cell == << 0, 0 >>
        \* the default; few microbes; many microbes; less organic matter than
        \* one conversion takes; none; an acid soil; a dry one
        soils ==
            { SoilDEFAULTS,
              NewSoil(50 * Scale, 50 * Scale, 30 * Scale, 10 * Scale, 10 * Scale, 7 * Scale),
              NewSoil(50 * Scale, 50 * Scale, 120 * Scale, 10 * Scale, 10 * Scale, 7 * Scale),
              NewSoil(50 * Scale, 50 * Scale, 50 * Scale, (4 * Scale) \div 10, 10 * Scale,
                      7 * Scale),
              NewSoil(50 * Scale, 50 * Scale, 50 * Scale, 0, 10 * Scale, 7 * Scale),
              NewSoil(70 * Scale, 30 * Scale, 80 * Scale, 20 * Scale, 80 * Scale, 5 * Scale),
              NewSoil(0, 50 * Scale, 50 * Scale, 10 * Scale, 10 * Scale, 7 * Scale) }
        temperatures == { 3 * Scale, 20 * Scale, 45 * Scale }
        \* the clamp of updateWeather keeps the humidity in [0, 100]
        humidities == { 0, 10 * Scale, 60 * Scale, 100 * Scale }
        winds == { 0, 15 * Scale }
        climateProps == CLIMATE_PROPERTIES["Temperate"]
        ambient == (climateProps.tempRange[1] + climateProps.tempRange[2]) \div 2
        g0 == [ tickCounter |-> 0,
                harvestData |-> [ t \in PlantTypes |-> 0 ],
                beneficialAttractionLevel |-> 0,
                playerMoney |-> 150,
                beePosition |-> << 2, 2 >>,
                simulationSpeed |-> 1,
                isPaused |-> FALSE,
                mainIntervalId |-> 1,
                activeIntervals |-> { 1 } ]
    IN  \E s \in soils, temperature \in temperatures, humidity \in humidities,
           wind \in winds :
            /\ soil = [ c \in Cells |-> IF c = cell THEN s ELSE SoilDEFAULTS ]
            /\ variables = [ c \in Cells |->
                               [ temperature |-> IF c = cell THEN temperature ELSE ambient,
                                 weeds |-> 0,
                                 pests |-> NoPests ] ]
            /\ plant = [ c \in Cells |-> NoPlant ]
            /\ structure = [ c \in Cells |-> NoStructure ]
            /\ weather = [ currentClimate |-> "Temperate",
                           ambientTemperature |-> ambient,
                           currentHumidity |-> humidity,
                           currentWindSpeed |-> wind,
                           currentWindDirection |-> "None",
                           isPollinated |-> FALSE,
                           simulatedTimeOfDay |-> 6 * 60,
                           simulatedDaysElapsed |-> 0,
                           lastWindChangeDay |-> -1 ]
            /\ game = g0
            /\ tick = IdleTick
            /\ actionResult = [ mode |-> "none" ]
            /\ clicks = 0

\* soil.applyEvaporation(temperature, humidity, wind, squashModifier) of the
\* soil on a square, with and without a Squash plant shading it, and
\* soil.updateMicrobes(temperature)
NextSoilStep ==
    \/ \E c \in Cells, modifier \in { Scale \div 2, Scale } :
          /\ soil[c] # SoilDEFAULTS \/ c = << 0, 0 >>
          /\ clicks < MaxSoilSteps
          /\ soil' = [ soil EXCEPT ![c] =
                         applyEvaporation(@, variables[c].temperature,
                                          weather.currentHumidity,
                                          weather.currentWindSpeed, modifier) ]
          /\ actionResult' =
                [ mode |-> "evaporation", key |-> c, squashModifier |-> modifier,
                  evaporated |->
                      evaporationAmount(soil[c],
                          evaporationRate(variables[c].temperature,
                                          weather.currentHumidity, modifier)) ]
          /\ clicks' = clicks + 1
          /\ UNCHANGED << variables, plant, structure, weather, game, tick >>
    \/ \E c \in Cells :
          /\ soil[c] # SoilDEFAULTS \/ c = << 0, 0 >>
          /\ clicks < MaxSoilSteps
          /\ soil' = [ soil EXCEPT ![c] = updateMicrobes(@, variables[c].temperature) ]
          /\ actionResult' = [ mode |-> "microbes", key |-> c ]
          /\ clicks' = clicks + 1
          /\ UNCHANGED << variables, plant, structure, weather, game, tick >>

SpecSoilStep == InitSoilStep /\ [][NextSoilStep]_vars

\* C33: applyEvaporation sets the rate to max(0, temperature x tempEffect x
\* (1 - humidity/100 x humidityEffect) x shade modifier) for every humidity
\* in [0,100], the value 0 included, takes rate x moisture/100 off the
\* moisture and returns that amount; the amount does not depend on the wind
\* and never rises when the humidity rises with nothing else changed
EvaporationByHumidity ==
    [][ \A c \in Cells :
          ( actionResult'.mode = "evaporation" /\ actionResult'.key = c )
          => LET t == variables[c].temperature
                 h == weather.currentHumidity
                 shade == actionResult'.squashModifier
                 baseEvap == Frac(t, RATES.tempEffectOnEvap[1], RATES.tempEffectOnEvap[2])
                 humidityFactor == Scale - Frac(h \div 100, RATES.humidityEffectOnEvap[1],
                                                RATES.humidityEffectOnEvap[2])
                 rate == Max(0, (((baseEvap * humidityFactor) \div Scale) * shade) \div Scale)
                 amount == (rate * soil[c].moisture) \div (100 * Scale)
             IN  /\ soil'[c].evaporationRate = rate
                 /\ actionResult'.evaporated = amount
                 /\ soil'[c].moisture = clamp(soil[c].moisture - amount, 0, 100 * Scale)
                 /\ \A wind \in { 0, 15 * Scale, 35 * Scale } :
                        applyEvaporation(soil[c], t, h, wind, shade) = soil'[c]
                 /\ \A wetter \in { 10 * Scale, 60 * Scale, 100 * Scale } :
                        wetter >= h
                        => evaporationAmount(soil[c], evaporationRate(t, wetter, shade))
                              <= actionResult'.evaporated ]_vars

\* C37: updateMicrobes conserves organic matter + bioavailable nutrition:
\* what leaves the organic matter is what the nutrition gains, it is at most
\* the organic matter there was, and it is 0 unless the microbes are at or
\* above the active threshold and the temperature activity factor is above 0
MicrobesConserveMatter ==
    [][ \A c \in Cells :
          ( clicks' = clicks + 1 /\ actionResult'.mode = "microbes" /\ actionResult'.key = c )
          => LET removed == soil[c].organicMatter - soil'[c].organicMatter
                 added == soil'[c].bioavailableNutrition - soil[c].bioavailableNutrition
             IN  /\ removed = added
                 /\ removed >= 0
                 /\ removed <= soil[c].organicMatter
                 /\ ( soil[c].microbes < THRESHOLDS.microbeActive
                      \/ microbeActivityFactor(variables[c].temperature) <= 0 )
                    => removed = 0 ]_vars

\* the last of the organic matter, less than one conversion takes, has become
\* nutrition
ScarceOrganicMatterConverted ==
    /\ actionResult.mode = "microbes"
    /\ soil[actionResult.key].organicMatter = 0
    /\ soil[actionResult.key].bioavailableNutrition = 10 * Scale + (4 * Scale) \div 10

\* a step is a tilling click on square c
TillStep(c) ==
    /\ clicks' = clicks + 1
    /\ actionResult'.mode = "till"
    /\ actionResult'.key = c

\* C32: after the derived soil values are computed again, here at the end
\* of a tilling, the soil condition is the mean of moisture, nutrition,
\* 100 - compaction and min(microbes, 100), within [0,100], for every
\* compaction in [0,100], the value 0 included; and a lower compaction with
\* nothing else changed never gives a lower soil condition
SoilConditionIsTheMean ==
    [][ \A c \in Cells :
          TillStep(c)
          => LET s == soil'[c]
                 looser == [ s EXCEPT !.compaction = Max(0, @ - RATES.tillCompactionReduce) ]
             IN  /\ s.soilCondition
                      = clamp((s.moisture + s.nutrition + (100 * Scale - s.compaction)
                               + Min(s.microbes, 100 * Scale)) \div 4, 0, 100 * Scale)
                 /\ updateDerivedVariables(looser).soilCondition >= s.soilCondition ]_vars

\* C34: a plant comes to share its square with a Trellis or a Net through
\* the planting and placing commands (where the Trellis then lowers the
\* nutrition drawn by Beans, Squash and Tomato to 0.75 and raises their yield
\* factor by 1.3, and the Net lowers the level-up chance of Aphids to 0.3):
\* a seed planted on a square that holds such a structure and no plant is
\* planted there, and such a structure placed on a square that holds a plant
\* and no structure is placed there
PlantSharesCellWithSupport ==
    [][ \A c \in Cells :
          ( PlacementStep(c) /\ clicks' = clicks + 1 )
          => /\ ( /\ actionResult'.mode = "plant"
                  /\ structure[c].type \in { "Trellis", "Net" }
                  /\ ~HasPlant(c) )
                => ( HasPlant(c)' /\ structure'[c].type = structure[c].type )
             /\ ( /\ actionResult'.mode = "add_structure"
                  /\ actionResult'.type \in { "Trellis", "Net" }
                  /\ HasPlant(c)
                  /\ ~HasStructure(c) )
                => ( HasPlant(c)' /\ structure'[c].type = actionResult'.type ) ]_vars

lightFactorAt(simulatedTimeOfDay) ==
    LET raised == (SinDay(OrDefault(simulatedTimeOfDay, 720)) + Scale) \div 2
    IN  Max(0, Frac(raised, 11, 10) - Scale \div 10)

\* the times of day at which the curve is below its threshold, midnight first
NightTimes == { 0, 60, 120, 22 * 60, 23 * 60 }

\* C36: the light factor of a plant update is a function of the simulated
\* time of day alone: the update of a living plant gets its light factor and
\* runs on, the factor is 0 at every time outside the daylight window,
\* midnight (time of day 0) included, and it is largest at midday (720)
LightFollowsTimeOfDay ==
    [][ \A c \in Cells :
          ( /\ PlantUpdateStep(c)
            /\ ~senescentOrDead(updateAge(plant[c], tick.elapsedSimMinutes)) )
          => /\ CellStep(c)
             /\ \A t \in NightTimes : lightFactorAt(t) = 0
             /\ \A h \in 0 .. 23 : lightFactorAt(720) >= lightFactorAt(60 * h) ]_vars

----------------------------------------------------------------------------
(* The wind direction over a week: the timer fires on an empty grid, each   *)
(* callback covers half a day or a whole one, and updateWeather draws the   *)
(* direction when it re-rolls.                                              *)

MaxWindTicks == 9

\* the directions updateWeather draws from; None is in its list twice
WindDirections == { "N", "E", "S", "W", "None" }

WindDraws == { [ CalmDraw EXCEPT !.direction = d ] : d \in { "N", "E", "None" } }

NextWind ==
    \/ \E elapsedSimMinutes \in { 720, 1440 } :
           game.tickCounter < MaxWindTicks /\ TickBegin(elapsedSimMinutes)
    \/ TickCell(QuietDraw)
    \/ \E draw \in WindDraws, nextBee \in BeePath : TickEnd(draw, nextBee)

SpecWind == InitOlla /\ [][NextWind]_vars

\* the step is the updateWeather call that ends a timer callback
WeatherStep == tick.pc = NumCells + 1 /\ tick'.pc = 0

\* C38 (as stated): the wind direction is re-rolled exactly at the day
\* boundaries: the first callback whose integer day number exceeds that of
\* the callback before it re-rolls, and no other callback changes the
\* direction
DirectionRerolledEachDay ==
    [][ LET currentSimDay == weather.simulatedDaysElapsed \div 1440
            previousSimDay == (weather.simulatedDaysElapsed - tick.elapsedSimMinutes) \div 1440
        IN  IF WeatherStep /\ currentSimDay > previousSimDay
            THEN /\ weather'.lastWindChangeDay = currentSimDay
                 /\ weather'.currentWindDirection \in WindDirections
            ELSE /\ weather'.lastWindChangeDay = weather.lastWindChangeDay
                 /\ weather'.currentWindDirection = weather.currentWindDirection ]_vars

\* C38 (amended): the wind direction is re-rolled only by the updateWeather
\* call of a callback whose integer day number is a multiple of 3 and above
\* the day of the last re-roll; that call records the day and draws the
\* direction from N, E, S, W and None, and no other step changes either
DirectionRerolledEveryThirdDay ==
    [][ LET currentSimDay == weather.simulatedDaysElapsed \div 1440
        IN  IF /\ WeatherStep
               /\ currentSimDay > weather.lastWindChangeDay
               /\ currentSimDay % 3 = 0
            THEN /\ weather'.lastWindChangeDay = currentSimDay
                 /\ weather'.currentWindDirection \in WindDirections
            ELSE /\ weather'.lastWindChangeDay = weather.lastWindChangeDay
                 /\ weather'.currentWindDirection = weather.currentWindDirection ]_vars

\* the direction drawn at the start has lasted through the days 1 and 2 and
\* has been drawn again on day 3
RerolledOnTheThirdDay ==
    /\ weather.lastWindChangeDay = 3
    /\ weather.currentWindDirection = "E"
    /\ tick.pc = 0

\* C40: without a refill the water of an Olla goes down in every timer
\* callback in which it is above 0: the callback does not end before the
\* update of the Olla, that update takes the water strictly down and never
\* below 0 (so from the full 200 it is 0 after at most 58 callbacks), and an
\* empty Olla stays empty and adds no moisture to any square around it
OllaRunsDry ==
    [][ \A c \in Cells :
          ( structure[c].type = "Olla" /\ structure'[c].type = "Olla" /\ ~AddWaterStep(c) )
          => LET level == structure[c].waterLevel
             IN  /\ ( TickEnds /\ level > 0 ) => CellIndex(c) < tick.pc
                 /\ ( CellStep(c) /\ level > 0 )
                    => /\ structure'[c].waterLevel < level
                       /\ structure'[c].waterLevel >= 0
                       /\ structure'[c].waterLevel > 0
                          => structure'[c].waterLevel = level - RATES.ollaWaterRelease
                 /\ ( CellStep(c) /\ level = 0 )
                    => /\ structure'[c].waterLevel = 0
                       /\ \A n \in receivers(c) : soil'[n] = soil[n] ]_vars

----------------------------------------------------------------------------
(* The controls of the timer: the speed buttons, the pause button and the  *)
(* reset button, between the callbacks of the timer on an empty grid.      *)

MaxTimerClicks == 4
MaxTimerTicks == 2

NextTimer ==
    \* a speed button: simulationSpeed = parseInt(button.dataset.speed)
    \/ \E speed \in { 1, 2, 4 } :
          /\ ClickEnabled
          /\ clicks < MaxTimerClicks
          /\ game' = resetInterval([ game EXCEPT !.simulationSpeed = speed ])
          /\ actionResult' = [ mode |-> "speed", speed |-> speed ]
          /\ clicks' = clicks + 1
          /\ UNCHANGED << soil, variables, plant, structure, weather, tick >>
    \* the pause / resume button
    \/ /\ ClickEnabled
       /\ clicks < MaxTimerClicks
       /\ game' = resetInterval([ game EXCEPT !.isPaused = ~@ ])
       /\ actionResult' = [ mode |-> "pause" ]
       /\ clicks' = clicks + 1
       /\ UNCHANGED << soil, variables, plant, structure, weather, tick >>
    \* the reset button: clearInterval(mainIntervalId), then initializeGrid,
    \* which clears once more, resets the state and calls resetInterval
    \/ \E bee \in BeePath :
          LET climateProps == CLIMATE_PROPERTIES[weather.currentClimate]
              ambient == (climateProps.tempRange[1] + climateProps.tempRange[2]) \div 2
              stopped == game.activeIntervals \ { game.mainIntervalId }
              g0 == resetInterval([ tickCounter |-> 0,
                                    harvestData |-> [ t \in PlantTypes |-> 0 ],
                                    beneficialAttractionLevel |-> 0,
                                    playerMoney |-> 150,
                                    beePosition |-> bee,
                                    simulationSpeed |-> 1,
                                    isPaused |-> FALSE,
                                    mainIntervalId |-> 0,
                                    activeIntervals |-> stopped ])
              w0 == [ currentClimate |-> weather.currentClimate,
                      ambientTemperature |-> ambient,
                      currentHumidity |-> OrDefault(climateProps.humidityAvg, 60 * Scale),
                      currentWindSpeed |-> 0,
                      currentWindDirection |-> "None",
                      isPollinated |-> FALSE,
                      simulatedTimeOfDay |-> 6 * 60,
                      simulatedDaysElapsed |-> 0,
                      lastWindChangeDay |-> -1 ]
          IN  /\ ClickEnabled
              /\ clicks < MaxTimerClicks
              /\ soil' = [ c \in Cells |-> SoilDEFAULTS ]
              /\ variables' = [ c \in Cells |->
                                  [ temperature |-> ambient, weeds |-> 0, pests |-> NoPests ] ]
              /\ plant' = [ c \in Cells |-> NoPlant ]
              /\ structure' = [ c \in Cells |-> NoStructure ]
              /\ weather' = updateWeather(w0, g0, 0, 0, CalmDraw)
              /\ game' = g0
              /\ tick' = IdleTick
              /\ actionResult' = [ mode |-> "reset" ]
              /\ clicks' = clicks + 1
    \/ game.tickCounter < MaxTimerTicks /\ TickBegin(72)
    \/ TickCell(QuietDraw)
    \/ \E nextBee \in BeePath : TickEnd(CalmDraw, nextBee)

SpecTimer == InitOlla /\ [][NextTimer]_vars

\* C39: after any sequence of speed changes, pauses, resumes and resets at
\* most one interval timer is active, and one is active exactly when the
\* simulation is not paused; no timer callback starts while it is paused;
\* and a reset leaves the simulation unpaused with one active timer
OneTimerUnlessPaused ==
    /\ [] ( /\ Cardinality(game.activeIntervals) <= 1
            /\ ( game.activeIntervals # {} ) <=> ~game.isPaused
            /\ game.activeIntervals \subseteq { game.mainIntervalId } )
    /\ [][ /\ ( tick.pc = 0 /\ tick'.pc = 1 ) => ~game.isPaused
           /\ ( clicks' = clicks + 1 /\ actionResult'.mode = "reset" )
              => ( ~game'.isPaused /\ Cardinality(game'.activeIntervals) = 1 ) ]_vars

\* the speed was changed while the simulation was paused, after callbacks
\* had run: no timer was started
SpeedChangedWhilePaused ==
    /\ game.isPaused
    /\ game.simulationSpeed = 4
    /\ actionResult.mode = "speed"
    /\ game.activeIntervals = {}
    /\ game.tickCounter > 0

====
